---- MODULE Spec2Model ----
(***************************************************************************)
(* Model of the daily-change pipeline: the diff stage (computeDiffs), the  *)
(* classification stage (classifyChanges), the driver (main) and the rate  *)
(* limiter (createRateLimitedClient).                                      *)
(*                                                                         *)
(* JavaScript strings are modelled as sequences of one-character strings,  *)
(* so that parsing, lower-casing and substring search are computed.        *)
(***************************************************************************)
EXTENDS Integers, Sequences, FiniteSets, TLC

(***************************************************************************)
(* JavaScript values.  Every value has the same record shape:              *)
(*   t : the type tag, s : the characters of a string, n : the number (or  *)
(*   1/0 of a boolean), f : the members of an object, in source order.     *)
(***************************************************************************)
JNull == [t |-> "null", s |-> <<>>, n |-> 0, f |-> <<>>]

JUndef == [t |-> "undef", s |-> <<>>, n |-> 0, f |-> <<>>]

JStr(chars) == [t |-> "str", s |-> chars, n |-> 0, f |-> <<>>]

JNum(k) == [t |-> "num", s |-> <<>>, n |-> k, f |-> <<>>]

JBool(b) == [t |-> "bool", s |-> <<>>, n |-> IF b THEN 1 ELSE 0, f |-> <<>>]

JObj(members) == [t |-> "obj", s |-> <<>>, n |-> 0, f |-> members]

\* !v is false
Truthy(v) ==
    CASE v.t = "str" -> v.s # <<>>
      [] v.t = "num" -> v.n # 0
      [] v.t = "bool" -> v.n = 1
      [] v.t = "obj" -> TRUE
      [] OTHER -> FALSE

RECURSIVE LastMember(_, _, _)
LastMember(members, key, i) ==
    IF i = 0 THEN JUndef
    ELSE IF members[i].k = key THEN members[i].v
    ELSE LastMember(members, key, i - 1)

\* v.key for a value that is neither null nor undefined
Get(v, key) == IF v.t = "obj" THEN LastMember(v.f, key, Len(v.f)) ELSE JUndef

\* reading a property of null or undefined throws a TypeError
ThrowsOnGet(v) == v.t \in {"null", "undef"}

(***************************************************************************)
(* String helpers: toLowerCase, includes, trim.                            *)
(***************************************************************************)
UpperChars == <<"A","B","C","D","E","F","G","H","I","J","K","L","M","N","O","P","Q","R","S","T","U","V","W","X","Y","Z">>

LowerChars == <<"a","b","c","d","e","f","g","h","i","j","k","l","m","n","o","p","q","r","s","t","u","v","w","x","y","z">>

ToLowerChar(c) ==
    IF \E i \in 1..Len(UpperChars) : UpperChars[i] = c
    THEN LowerChars[CHOOSE i \in 1..Len(UpperChars) : UpperChars[i] = c]
    ELSE c

toLowerCase(chars) == [i \in 1..Len(chars) |-> ToLowerChar(chars[i])]

StartsAt(txt, i, p) ==
    /\ i >= 1
    /\ i + Len(p) - 1 <= Len(txt)
    /\ SubSeq(txt, i, i + Len(p) - 1) = p

includes(chars, p) == \E i \in 1..(Len(chars) + 1) : StartsAt(chars, i, p)

IsWs(c) == c \in {" ", "\t", "\n", "\r"}

RECURSIVE SkipWs(_, _)
SkipWs(txt, i) == IF i <= Len(txt) /\ IsWs(txt[i]) THEN SkipWs(txt, i + 1) ELSE i

RECURSIVE SkipWsBack(_, _)
SkipWsBack(txt, i) == IF i >= 1 /\ IsWs(txt[i]) THEN SkipWsBack(txt, i - 1) ELSE i

trim(chars) == SubSeq(chars, SkipWs(chars, 1), SkipWsBack(chars, Len(chars)))

(***************************************************************************)
(* JSON.parse, for documents made of objects, strings without escapes,     *)
(* non-negative integers, null, true and false.                            *)
(***************************************************************************)
Digits == <<"0","1","2","3","4","5","6","7","8","9">>

IsDigit(c) == \E i \in 1..Len(Digits) : Digits[i] = c

DigitVal(c) == (CHOOSE i \in 1..Len(Digits) : Digits[i] = c) - 1

NullLit == <<"n","u","l","l">>

TrueLit == <<"t","r","u","e">>

FalseLit == <<"f","a","l","s","e">>

ParseFail == [ok |-> FALSE, v |-> JNull, next |-> 0]

ParseOk(v, next) == [ok |-> TRUE, v |-> v, next |-> next]

\* the index of the first quote at or after i, 0 when there is none
QuoteEnd(txt, i) ==
    LET quotes == {j \in i..Len(txt) : txt[j] = "\""} IN
    IF quotes = {} THEN 0 ELSE CHOOSE j \in quotes : \A k \in quotes : j <= k

\* txt[i] is the opening quote
ParseString(txt, i) ==
    LET j == QuoteEnd(txt, i + 1) IN
    IF j = 0 THEN ParseFail ELSE ParseOk(JStr(SubSeq(txt, i + 1, j - 1)), j + 1)

RECURSIVE DigitsEnd(_, _)
DigitsEnd(txt, i) == IF i <= Len(txt) /\ IsDigit(txt[i]) THEN DigitsEnd(txt, i + 1) ELSE i

RECURSIVE NumVal(_, _, _)
NumVal(txt, i, j) == IF j < i THEN 0 ELSE 10 * NumVal(txt, i, j - 1) + DigitVal(txt[j])

\* txt[i] is a digit; JSON forbids a leading zero
ParseNumber(txt, i) ==
    LET j == DigitsEnd(txt, i) IN
    IF txt[i] = "0" /\ j > i + 1 THEN ParseFail
    ELSE ParseOk(JNum(NumVal(txt, i, j - 1)), j)

RECURSIVE ParseValue(_, _)
RECURSIVE ParseMembers(_, _, _)
ParseValue(txt, i0) ==
    LET i == SkipWs(txt, i0) IN
    IF i > Len(txt) THEN ParseFail
    ELSE IF txt[i] = "\"" THEN ParseString(txt, i)
    ELSE IF IsDigit(txt[i]) THEN ParseNumber(txt, i)
    ELSE IF StartsAt(txt, i, NullLit) THEN ParseOk(JNull, i + 4)
    ELSE IF StartsAt(txt, i, TrueLit) THEN ParseOk(JBool(TRUE), i + 4)
    ELSE IF StartsAt(txt, i, FalseLit) THEN ParseOk(JBool(FALSE), i + 5)
    ELSE IF txt[i] = "{"
         THEN LET j == SkipWs(txt, i + 1) IN
              IF j <= Len(txt) /\ txt[j] = "}"
              THEN ParseOk(JObj(<<>>), j + 1)
              ELSE ParseMembers(txt, j, <<>>)
    ELSE ParseFail

\* at a member of an object: "key" : value, then , or }
ParseMembers(txt, i0, acc) ==
    LET i == SkipWs(txt, i0) IN
    IF i > Len(txt) \/ txt[i] # "\"" THEN ParseFail
    ELSE LET key == ParseString(txt, i) IN
    IF ~key.ok THEN ParseFail
    ELSE LET c == SkipWs(txt, key.next) IN
    IF c > Len(txt) \/ txt[c] # ":" THEN ParseFail
    ELSE LET val == ParseValue(txt, c + 1) IN
    IF ~val.ok THEN ParseFail
    ELSE LET e == SkipWs(txt, val.next)
             acc2 == Append(acc, [k |-> key.v.s, v |-> val.v]) IN
    IF e > Len(txt) THEN ParseFail
    ELSE IF txt[e] = "}" THEN ParseOk(JObj(acc2), e + 1)
    ELSE IF txt[e] = "," THEN ParseMembers(txt, e + 1, acc2)
    ELSE ParseFail

\* JSON.parse(chars): ok = FALSE stands for the SyntaxError it throws
JSONparse(chars) ==
    LET r == ParseValue(chars, 1) IN
    IF r.ok /\ SkipWs(chars, r.next) = Len(chars) + 1
    THEN [ok |-> TRUE, v |-> r.v]
    ELSE [ok |-> FALSE, v |-> JNull]

(***************************************************************************)
(* Property names and fixed texts of the code.                             *)
(***************************************************************************)
SummaryKey == <<"s","u","m","m","a","r","y">>

TextContentKey == <<"t","e","x","t","C","o","n","t","e","n","t">>

ClassificationKey == <<"c","l","a","s","s","i","f","i","c","a","t","i","o","n">>

ExplanationKey == <<"e","x","p","l","a","n","a","t","i","o","n">>

\* the phrase the significance gate looks for
NoSigPhrase == <<"n","o"," ","s","i","g","n","i","f","i","c","a","n","t"," ","c","h","a","n","g","e","s">>

\* the summary returned when a truncated response yields no text
TruncatedPlaceholder == <<"C","o","n","t","e","n","t"," ","c","h","a","n","g","e","s"," ","d","e","t","e","c","t","e","d",","," ","b","u","t"," ","t","h","e"," ","s","u","m","m","a","r","y"," ","w","a","s"," ","t","o","o"," ","l","o","n","g"," ","t","o"," ","p","r","o","c","e","s","s"," ","c","o","m","p","l","e","t","e","l","y",".">>

\* the summary returned when a complete response does not parse
ParseErrorPlaceholder == <<"E","r","r","o","r"," ","p","a","r","s","i","n","g"," ","c","h","a","n","g","e"," ","s","u","m","m","a","r","y"," ","r","e","s","p","o","n","s","e",".">>

Ellipsis == <<".", ".", ".">>

\* the length beyond which a salvaged text is cut
SalvageLimit == 40000

\* the characters reserved for the prompt
PromptOverheadChars == 3000

\* extractText returning json.textContent whenever the field is present
extractText_FieldAsIs(content) ==
    IF content.t # "str"
    THEN content
    ELSE LET p == JSONparse(content.s) IN
         IF ~p.ok THEN content
         ELSE IF ThrowsOnGet(p.v) THEN content
         ELSE LET v == Get(p.v, TextContentKey) IN
              IF v # JUndef THEN v ELSE JStr(<<>>)

(***************************************************************************)
(* extractText(content): the text of a snapshot's content.  The content is *)
(* a JavaScript string, or null for a NULL column.                         *)
(***************************************************************************)
extractText(content) ==
    IF content.t # "str"
    THEN content                        \* JSON.parse(null) is null, null.textContent throws
    ELSE LET p == JSONparse(content.s) IN
         IF ~p.ok THEN content          \* SyntaxError: raw text
         ELSE IF ThrowsOnGet(p.v) THEN content
         ELSE LET v == Get(p.v, TextContentKey) IN
              IF Truthy(v) THEN v ELSE JStr(<<>>)

\* text.length throws when text is null or undefined
ThrowsOnLength(text) == text.t \in {"null", "undef"}

(***************************************************************************)
(* The tolerant scan /"summary"\s*:\s*"([^"]+)/ of a truncated response.   *)
(***************************************************************************)
QuotedSummaryKey == <<"\"">> \o SummaryKey \o <<"\"">>

\* 0, or the index of the first character of the group when the pattern
\* matches at index i
GroupStartAt(txt, i) ==
    IF ~StartsAt(txt, i, QuotedSummaryKey) THEN 0
    ELSE LET c == SkipWs(txt, i + Len(QuotedSummaryKey)) IN
         IF c > Len(txt) \/ txt[c] # ":" THEN 0
         ELSE LET q == SkipWs(txt, c + 1) IN
              IF q > Len(txt) \/ txt[q] # "\"" THEN 0
              ELSE IF q + 1 > Len(txt) \/ txt[q + 1] = "\"" THEN 0
              ELSE q + 1

\* the group of the leftmost match, <<>> when there is no match
summaryMatch(txt) ==
    LET hits == {i \in 1..Len(txt) : GroupStartAt(txt, i) # 0} IN
    IF hits = {} THEN <<>>
    ELSE LET i == CHOOSE h \in hits : \A g \in hits : h <= g
             b == GroupStartAt(txt, i)
             e == QuoteEnd(txt, b) IN
         SubSeq(txt, b, IF e = 0 THEN Len(txt) ELSE e - 1)

\* the recovery without its limit
salvage_Uncapped(content) ==
    IF content.t # "str" THEN <<>> ELSE trim(summaryMatch(content.s))

\* the text recovered from a response cut short
salvage(content) ==
    IF content.t # "str" THEN <<>>      \* null.match throws, caught: nothing extracted
    ELSE LET extracted == trim(summaryMatch(content.s)) IN
         IF Len(extracted) > SalvageLimit
         THEN SubSeq(extracted, 1, SalvageLimit) \o Ellipsis
         ELSE extracted

(***************************************************************************)
(* getLLMChangeSummary: what the diff stage gets from one provider call.   *)
(* A response is [err, finish, content]: err for a call that throws,       *)
(* finish for choices[0].finish_reason, content for message.content.       *)
(***************************************************************************)
SummaryObject(chars) == JObj(<<[k |-> SummaryKey, v |-> JStr(chars)]>>)

\* getLLMChangeSummary without its branch for finish reason "length"
getLLMChangeSummary_NoRecovery(resp) ==
    IF resp.err THEN JNull
    ELSE IF resp.content.t # "str" THEN JNull
    ELSE LET p == JSONparse(resp.content.s) IN
         IF p.ok THEN p.v ELSE SummaryObject(ParseErrorPlaceholder)

\* a failed call answered with the placeholder of the parse error
getLLMChangeSummary_PlaceholderOnError(resp) ==
    IF resp.err THEN SummaryObject(ParseErrorPlaceholder)
    ELSE IF resp.finish = "length"
    THEN LET extractedText == salvage(resp.content) IN
         SummaryObject(IF extractedText # <<>> THEN extractedText ELSE TruncatedPlaceholder)
    ELSE IF resp.content.t # "str" THEN JNull
    ELSE LET p == JSONparse(resp.content.s) IN
         IF p.ok THEN p.v ELSE SummaryObject(ParseErrorPlaceholder)

getLLMChangeSummary(resp) ==
    IF resp.err THEN JNull
    ELSE IF resp.finish = "length"
    THEN LET extractedText == salvage(resp.content) IN
         SummaryObject(IF extractedText # <<>> THEN extractedText ELSE TruncatedPlaceholder)
    ELSE IF resp.content.t # "str" THEN JNull      \* JSON.parse(null) is null
    ELSE LET p == JSONparse(resp.content.s) IN
         IF p.ok THEN p.v ELSE SummaryObject(ParseErrorPlaceholder)

\* the branch of getLLMChangeSummary a response takes:
\*   "failed"      the call threw, null is returned
\*   "truncated"   finish reason "length", nothing extracted: the placeholder
\*   "salvaged"    finish reason "length", the extracted text
\*   "unparseable" JSON.parse threw: the placeholder
\*   "parsed"      the parsed JSON
answerKind(resp) ==
    IF resp.err THEN "failed"
    ELSE IF resp.finish = "length"
    THEN (IF salvage(resp.content) = <<>> THEN "truncated" ELSE "salvaged")
    ELSE IF resp.content.t = "str" /\ ~JSONparse(resp.content.s).ok THEN "unparseable"
    ELSE "parsed"

\* the gate without toLowerCase
significanceGate_CaseSensitive(diffJson) ==
    IF ~Truthy(diffJson) THEN "skip"
    ELSE LET summary == Get(diffJson, SummaryKey) IN
         IF ~Truthy(summary) THEN "skip"
         ELSE IF summary.t # "str" THEN "throw"
         ELSE IF includes(summary.s, NoSigPhrase) THEN "nosig"
         ELSE "store"

(***************************************************************************)
(* The significance gate of computeDiffs.                                  *)
(*   "skip"  : no summary, the source is skipped                           *)
(*   "nosig" : the summary says no significant changes, skipped            *)
(*   "throw" : summary.toLowerCase is not a function, a TypeError escapes  *)
(*   "store" : go on to the duplicate check                                *)
(***************************************************************************)
significanceGate(diffJson) ==
    IF ~Truthy(diffJson) THEN "skip"
    ELSE LET summary == Get(diffJson, SummaryKey) IN
         IF ~Truthy(summary) THEN "skip"
         ELSE IF summary.t # "str" THEN "throw"
         ELSE IF includes(toLowerCase(summary.s), NoSigPhrase) THEN "nosig"
         ELSE "store"

(***************************************************************************)
(* The context budget of computeDiffs: maxChars and head truncation.       *)
(* Math.round of a quotient by 3 rounds half up.                           *)
(***************************************************************************)
maxChars_Floor(context) == (context * 4 - PromptOverheadChars) \div 3

maxChars(context) == (2 * (context * 4 - PromptOverheadChars) + 3) \div 6

budget(chars, limit) == IF Len(chars) > limit THEN SubSeq(chars, 1, limit) ELSE chars

(***************************************************************************)
(* Bounds of the model.                                                    *)
(***************************************************************************)
\* snapshots the scraper captures in all
MaxSnapshots == 3

\* rows the changes collection can hold; an insert into a full one fails
MaxChanges == 2

\* pipeline processes
NumRuns == 2

\* concurrent callers of the rate-limited create()
NumCallers == 2

\* create() calls made in all
MaxCalls == 3

\* pieces an input text is made of
MaxTokens == 4

\* pieces before an unterminated string
MaxPaddedTokens == 1

\* how far the length of an unterminated string lies from the salvage limit
PadSlack == 1

\* context sizes above the smallest that leaves room for the prompt
ContextSpan == 5

\* Date.now() when the model starts, the step of the clock and how far it
\* runs, in milliseconds
StartTime == 100000

TickMs == 1000

HorizonMs == 6000

Callers == 1..NumCallers

Runs == 1..NumRuns

(***************************************************************************)
(* The world around the pipeline: the sources, what the scraper captures,  *)
(* what the providers answer.                                              *)
(***************************************************************************)
sources ==
    << [id |-> 1, url |-> "u1", is_active |-> TRUE],
       [id |-> 2, url |-> "u2", is_active |-> TRUE],
       [id |-> 3, url |-> "u3", is_active |-> FALSE] >>

SourceIds == {sources[i].id : i \in 1..Len(sources)}

SourceById(id) == sources[CHOOSE i \in 1..Len(sources) : sources[i].id = id]

Urls == {sources[i].url : i \in 1..Len(sources)}

\* the urls the scraper visits
ScrapedUrls == {"u1", "u2"}

\* a snapshot row
Snapshot(id, url, content, at) == [id |-> id, url |-> url, content |-> content, captured_at |-> at]

\* the captures the store holds when the model starts: two of u1
InitialSnapshots ==
    << Snapshot(1, "u1", JStr(<<"{","\"","t","e","x","t","C","o","n","t","e","n","t","\"",":","\"","v","1"," ","a","p","i","\"","}">>), 1),
       Snapshot(2, "u1", JStr(<<"{","\"","t","e","x","t","C","o","n","t","e","n","t","\"",":","\"","v","2"," ","a","p","i",","," ","f","i","e","l","d"," ","X"," ","r","e","m","o","v","e","d","\"","}">>), 2) >>

\* contents the scraper stores later: extracted JSON, or NULL
SnapshotContents ==
    { JStr(<<"{","\"","t","e","x","t","C","o","n","t","e","n","t","\"",":","\"","v","3"," ","a","p","i","\"","}">>),
      JNull }

\* the context window of the differ model (llama-3.3-70b-instruct)
DifferContext == 131000

\* a response of the provider to the differ: [err, finish, content].
\* The pipeline is run against a failed call, a significant summary, a
\* summary saying no significant changes, and a summary that is a number.
DiffResponse(err, finish, content) == [err |-> err, finish |-> finish, content |-> content]

DiffResponses ==
    << DiffResponse(TRUE, "stop", JNull),
       DiffResponse(FALSE, "stop", JStr(<<"{","\"","s","u","m","m","a","r","y","\"",":","\"","F","i","e","l","d"," ","X"," ","r","e","m","o","v","e","d","\"","}">>)),
       DiffResponse(FALSE, "stop", JStr(<<"{","\"","s","u","m","m","a","r","y","\"",":","\"","N","o"," ","S","i","g","n","i","f","i","c","a","n","t"," ","C","h","a","n","g","e","s"," ","d","e","t","e","c","t","e","d",".","\"","}">>)),
       DiffResponse(FALSE, "stop", JStr(<<"{","\"","s","u","m","m","a","r","y","\"",":","5","}">>)) >>

\* further responses, for the diff stage run on its own: an object with a
\* second key, a text that is no JSON, a response cut short before its
\* summary, one cut short inside its summary, and an empty summary
SummarizerResponses ==
    << DiffResponse(TRUE, "stop", JNull),
       DiffResponse(FALSE, "stop", JStr(<<"{","\"","s","u","m","m","a","r","y","\"",":","\"","h","e","l","l","o","\"","}">>)),
       DiffResponse(FALSE, "stop", JStr(<<"{","\"","s","u","m","m","a","r","y","\"",":","\"","h","e","l","l","o","\"",",","\"","t","e","x","t","C","o","n","t","e","n","t","\"",":","\"","h","e","l","l","o","\"","}">>)),
       DiffResponse(FALSE, "stop", JStr(<<"p","l","a","i","n"," ","t","e","x","t">>)),
       DiffResponse(FALSE, "length", JStr(<<"{","\"","s","u","m","m">>)),
       DiffResponse(FALSE, "length", JStr(<<"{","\"","s","u","m","m","a","r","y","\"",":","\"","h","e","l","l","o">>)),
       DiffResponse(FALSE, "stop", JStr(<<"{","\"","s","u","m","m","a","r","y","\"",":","\"","\"","}">>)) >>

\* a response of the provider to the classifier: [err, content]
ClassResponse(err, content) == [err |-> err, content |-> content]

ClassResponses ==
    << ClassResponse(TRUE, JNull),
       ClassResponse(FALSE, JStr(<<"{","\"","c","l","a","s","s","i","f","i","c","a","t","i","o","n","\"",":","\"","b","r","e","a","k","i","n","g","\"",",","\"","e","x","p","l","a","n","a","t","i","o","n","\"",":","\"","r","e","m","o","v","e","s"," ","a"," ","f","i","e","l","d","\"","}">>)),
       ClassResponse(FALSE, JStr(<<"{","\"","c","l","a","s","s","i","f","i","c","a","t","i","o","n","\"",":","\"","m","a","j","o","r","\"",",","\"","e","x","p","l","a","n","a","t","i","o","n","\"",":","\"","r","e","m","o","v","e","s"," ","a"," ","f","i","e","l","d","\"","}">>)),
       ClassResponse(FALSE, JStr(<<"{","\"","c","l","a","s","s","i","f","i","c","a","t","i","o","n","\"",":","\"","o","t","h","e","r","\"","}">>)),
       ClassResponse(FALSE, JStr(<<"{","\"","c","l","a","s","s","i","f","i","c","a","t","i","o","n","\"",":","7",",","\"","e","x","p","l","a","n","a","t","i","o","n","\"",":","\"","s","e","v","e","n","\"","}">>)),
       ClassResponse(FALSE, JStr(<<"n","u","l","l">>)) >>

\* the values the CHECK constraint of changes.classification admits
Classifications ==
    { <<"b","r","e","a","k","i","n","g">>,
      <<"s","e","c","u","r","i","t","y">>,
      <<"p","e","r","f","o","r","m","a","n","c","e">>,
      <<"n","e","w","_","f","e","a","t","u","r","e">>,
      <<"m","i","n","o","r","_","f","i","x">>,
      <<"o","t","h","e","r">> }

(***************************************************************************)
(* The store: its queries and writes, as the code issues them.             *)
(***************************************************************************)
\* the query without its is_active filter
activeSources_All == sources

\* sources: select id, url where is_active = true
activeSources == SelectSeq(sources, LAMBDA s : s.is_active = TRUE)

RECURSIVE OrderDesc(_)
\* the rows of a set of [key, row], greatest key first
OrderDesc(keyed) ==
    IF keyed = {} THEN <<>>
    ELSE LET top == CHOOSE x \in keyed : \A y \in keyed : x.key >= y.key IN
         <<top.row>> \o OrderDesc(keyed \ {top})

Limit(rows, k) == SubSeq(rows, 1, IF Len(rows) < k THEN Len(rows) ELSE k)

Rows(table) == {table[i] : i \in 1..Len(table)}

\* the query without its url filter
twoLatestSnapshots_AnyUrl(table, u) ==
    Limit(OrderDesc({[key |-> x.captured_at, row |-> x] : x \in Rows(table)}), 2)

\* the query ordered by captured_at ascending
twoLatestSnapshots_Ascending(table, u) ==
    Limit(OrderDesc({[key |-> 0 - x.captured_at, row |-> x] : x \in {y \in Rows(table) : y.url = u}}), 2)

\* dom_snapshots: where url = u order by captured_at desc limit 2
twoLatestSnapshots(table, u) ==
    Limit(OrderDesc({[key |-> x.captured_at, row |-> x] : x \in {y \in Rows(table) : y.url = u}}), 2)

\* computeDiffs skips a source with fewer than 2 snapshots
tooFewSnapshots(found) == Len(found) < 2

\* changes: where source_id = sid order by timestamp desc limit 1,
\* then latestChange?.[0]?.diff?.summary || ''
latestSummaryOf(table, sid, ok) ==
    LET found == Limit(OrderDesc({[key |-> x.timestamp, row |-> x] :
                                     x \in {y \in Rows(table) : y.source_id = sid}}), 1) IN
    IF ~ok \/ found = <<>> \/ ThrowsOnGet(found[1].diff) THEN JStr(<<>>)
    ELSE LET summary == Get(found[1].diff, SummaryKey) IN
         IF Truthy(summary) THEN summary ELSE JStr(<<>>)

\* no check at all
diffExists_Never(table, snapshotId1, snapshotId2, ok) == FALSE

\* the check with data.length > 1 for data.length > 0
diffExists_MoreThanOne(table, snapshotId1, snapshotId2, ok) ==
    IF ~ok THEN FALSE
    ELSE Cardinality({i \in 1..Len(table) :
                        /\ table[i].snapshot_id1 = snapshotId1
                        /\ table[i].snapshot_id2 = snapshotId2}) > 1

\* the check with snapshot_id2 compared with the older id
diffExists_SameId(table, snapshotId1, snapshotId2, ok) ==
    IF ~ok THEN FALSE
    ELSE \E i \in 1..Len(table) :
            /\ table[i].snapshot_id1 = snapshotId1
            /\ table[i].snapshot_id2 = snapshotId1

\* the check answering true when its query fails
diffExists_TrueOnError(table, snapshotId1, snapshotId2, ok) ==
    IF ~ok THEN TRUE
    ELSE \E i \in 1..Len(table) :
            /\ table[i].snapshot_id1 = snapshotId1
            /\ table[i].snapshot_id2 = snapshotId2

\* diffExists: false when the query fails, else whether a row has the pair
diffExists(table, snapshotId1, snapshotId2, ok) ==
    IF ~ok THEN FALSE
    ELSE \E i \in 1..Len(table) :
            /\ table[i].snapshot_id1 = snapshotId1
            /\ table[i].snapshot_id2 = snapshotId2

\* an insert that replaces the row of the source when there is one
insertChange_Upsert(table, sid, snapshotId1, snapshotId2, diffJson) ==
    LET row == [id |-> Len(table) + 1,
                source_id |-> sid,
                snapshot_id1 |-> snapshotId1,
                snapshot_id2 |-> snapshotId2,
                diff |-> diffJson,
                classification |-> JNull,
                explanation |-> JNull,
                timestamp |-> Len(table) + 1] IN
    IF \E i \in 1..Len(table) : table[i].source_id = sid
    THEN [i \in 1..Len(table) |->
            IF table[i].source_id = sid THEN [row EXCEPT !.id = table[i].id] ELSE table[i]]
    ELSE Append(table, row)

\* the insert with the two snapshot ids exchanged
insertChange_SwappedPair(table, sid, snapshotId1, snapshotId2, diffJson) ==
    Append(table,
           [id |-> Len(table) + 1,
            source_id |-> sid,
            snapshot_id1 |-> snapshotId2,
            snapshot_id2 |-> snapshotId1,
            diff |-> diffJson,
            classification |-> JNull,
            explanation |-> JNull,
            timestamp |-> Len(table) + 1])

\* changes: insert; id and timestamp come from the store and the clock
insertChange(table, sid, snapshotId1, snapshotId2, diffJson) ==
    Append(table,
           [id |-> Len(table) + 1,
            source_id |-> sid,
            snapshot_id1 |-> snapshotId1,
            snapshot_id2 |-> snapshotId2,
            diff |-> diffJson,
            classification |-> JNull,
            explanation |-> JNull,
            timestamp |-> Len(table) + 1])

\* changes: select id, diff, source_id where classification is null
\* the query limited to its newest row
unclassifiedChanges_Newest(table) ==
    LET found == SelectSeq(table, LAMBDA x : x.classification = JNull /\ x.id = Len(table)) IN
    [i \in 1..Len(found) |->
        [id |-> found[i].id, diff |-> found[i].diff, source_id |-> found[i].source_id]]

\* the query without its filter
unclassifiedChanges_All(table) ==
    [i \in 1..Len(table) |->
        [id |-> table[i].id, diff |-> table[i].diff, source_id |-> table[i].source_id]]

\* the query with "is not null" for "is null"
unclassifiedChanges_Classified(table) ==
    LET found == SelectSeq(table, LAMBDA x : x.classification # JNull) IN
    [i \in 1..Len(found) |->
        [id |-> found[i].id, diff |-> found[i].diff, source_id |-> found[i].source_id]]

unclassifiedChanges(table) ==
    LET found == SelectSeq(table, LAMBDA x : x.classification = JNull) IN
    [i \in 1..Len(found) |->
        [id |-> found[i].id, diff |-> found[i].diff, source_id |-> found[i].source_id]]

RECURSIVE NumChars(_)
NumChars(k) == IF k < 10 THEN <<Digits[k + 1]>> ELSE NumChars(k \div 10) \o <<Digits[(k % 10) + 1]>>

\* a value written to a TEXT column
ToText(v) ==
    CASE v.t = "str" -> v.s
      [] v.t = "num" -> NumChars(v.n)
      [] v.t = "bool" -> IF v.n = 1 THEN TrueLit ELSE FalseLit
      [] OTHER -> <<>>

\* a column without the CHECK constraint
classificationCheck_None(text) == TRUE

\* CHECK (classification IN ('breaking', ..., 'other'))
classificationCheck(text) == text \in Classifications

\* an update that writes the classification alone
updateChange_ClassificationOnly(table, id, classification, explanation) ==
    [i \in 1..Len(table) |->
        IF table[i].id = id
        THEN [table[i] EXCEPT !.classification = JStr(ToText(classification))]
        ELSE table[i]]

\* an update matched by the row's source_id
updateChange_BySource(table, id, classification, explanation) ==
    IF ~classificationCheck(ToText(classification)) THEN table
    ELSE LET sid == table[CHOOSE i \in 1..Len(table) : table[i].id = id].source_id IN
         [i \in 1..Len(table) |->
            IF table[i].source_id = sid
            THEN [table[i] EXCEPT !.classification = JStr(ToText(classification)),
                                  !.explanation = JStr(ToText(explanation))]
            ELSE table[i]]

\* an update that replaces the row, as an upsert of {id, classification,
\* explanation} would
updateChange_Upsert(table, id, classification, explanation) ==
    IF ~classificationCheck(ToText(classification)) THEN table
    ELSE [i \in 1..Len(table) |->
            IF table[i].id = id
            THEN [table[i] EXCEPT !.classification = JStr(ToText(classification)),
                                  !.explanation = JStr(ToText(explanation)),
                                  !.diff = JNull]
            ELSE table[i]]

\* changes: update {classification, explanation} where id = id.
\* The result is the table, unchanged when the CHECK rejects the row.
updateChange(table, id, classification, explanation) ==
    IF ~classificationCheck(ToText(classification)) THEN table
    ELSE [i \in 1..Len(table) |->
            IF table[i].id = id
            THEN [table[i] EXCEPT !.classification = JStr(ToText(classification)),
                                  !.explanation = JStr(ToText(explanation))]
            ELSE table[i]]

(***************************************************************************)
(* The classifier's handling of one provider response.                     *)
(*   "error"   : the call or the parse threw, caught by the row's try      *)
(*   "invalid" : a field is missing or empty, the row is skipped           *)
(*   "update"  : classification and explanation go to the store           *)
(***************************************************************************)
classifyResult(resp) ==
    IF resp.err THEN [kind |-> "error", classification |-> JNull, explanation |-> JNull]
    ELSE LET p == IF resp.content.t = "str" THEN JSONparse(resp.content.s)
                  ELSE [ok |-> TRUE, v |-> JNull] IN
         IF ~p.ok \/ ThrowsOnGet(p.v)
         THEN [kind |-> "error", classification |-> JNull, explanation |-> JNull]
         ELSE LET c == Get(p.v, ClassificationKey)
                  e == Get(p.v, ExplanationKey) IN
              IF ~Truthy(c) \/ ~Truthy(e)
              THEN [kind |-> "invalid", classification |-> JNull, explanation |-> JNull]
              ELSE [kind |-> "update", classification |-> c, explanation |-> e]

\* the classifier skips a row whose diff has no summary
invalidDiff(diff) == ~Truthy(diff) \/ ~Truthy(Get(diff, SummaryKey))

(***************************************************************************)
(* State.                                                                  *)
(*   snapshots : the dom_snapshots collection                              *)
(*   changes   : the changes collection                                    *)
(*   run       : for each pipeline process, where main() stands and its    *)
(*               local variables, with a record of what it did             *)
(*   guardFailed : a duplicate-check query has failed                      *)
(***************************************************************************)
VARIABLES snapshots, changes, run, guardFailed

pipeVars == <<snapshots, changes, run, guardFailed>>

(***************************************************************************)
(* A record of two runs in a row, kept for the idempotence of the diff     *)
(* stage (it changes only under SpecIdem):                                 *)
(*   second   the current run follows another, and no snapshot was         *)
(*            captured since that run started                              *)
(*   fresh    a snapshot was captured since the current run started        *)
(*   curOk    no store operation of the current run's diff stage failed    *)
(*   resp     per source, the index of the differ's latest response in the *)
(*            runs since a snapshot was last captured or a store operation *)
(*            last failed (0: none)                                        *)
(*   repeat   the current run is second, and so far it repeats the run     *)
(*            before it: no store operation of the diff stage of either    *)
(*            run failed, and every response of the differ in the current  *)
(*            run was the latest one for its source                        *)
(*   inserted the current run is second and has inserted a row             *)
(***************************************************************************)
VARIABLES hist

(***************************************************************************)
(* The rate limiter's state:                                               *)
(*   now             Date.now(), in milliseconds                           *)
(*   lastRequestTime rateLimitState.lastRequestTime, a map from the model  *)
(*                   names seen so far                                     *)
(*   calls           for each caller of create(), where it stands          *)
(*   starts          the underlying provider calls made, in order: the     *)
(*                   model, the time, and whether the caller had waited    *)
(*   issued          the number of create() calls made                     *)
(***************************************************************************)
VARIABLES now, lastRequestTime, calls, starts, issued

(***************************************************************************)
(* One function of the code applied on its own to an input (it changes     *)
(* only under SpecText, SpecBudget and SpecSummary):                       *)
(*   fn      the function applied, "none" while the input is being made    *)
(*   tokens  the input text, as the pieces it is made of                   *)
(*   pad     the length of the unterminated string the text ends with      *)
(*           (0: none)                                                     *)
(*   context, limit  the context size and maxChars, for the budget         *)
(*   kind    for a provider response: "error" for a call that threw, else  *)
(*           the finish reason, "stop" or "length"                         *)
(*   res     the result                                                    *)
(***************************************************************************)
VARIABLES probe

(***************************************************************************)
(* The diagnostic job (test-job.js, testDiff); it changes only under       *)
(* SpecTest:                                                               *)
(*   pc        where main() stands; "idle" before the job, "exit" after    *)
(*   id1, id2  the two snapshot ids the job is given                       *)
(*   old, new  ids of snapshotOld and snapshotNew (0: none)                *)
(*   source    the id of the source found for the url (0: none)            *)
(*   latestSummary, diffJson   as in computeDiffs                          *)
(*   outcome   how testDiff ended                                          *)
(*   exit      the exit code (-1 while running)                            *)
(***************************************************************************)
VARIABLES test

govVars == <<now, lastRequestTime, calls, starts, issued>>

vars == <<snapshots, changes, run, guardFailed, hist, now, lastRequestTime, calls, starts, issued, probe, test>>

\* Fields of run[r]:
\*   pc            where the process stands; "idle" before the first run,
\*                 "exit" after process exit
\*   queue         the sources computeDiffs still has to process
\*   old, new      ids of snapshotOld and snapshotNew (0: none)
\*   latestSummary the prior summary of the source
\*   diffJson      the result of getLLMChangeSummary
\*   rows          the unclassified rows classifyChanges still has to process
\*   classification, explanation   the parsed classifier response
\*   exit          the exit code (-1 while running)
\* and, recording what computeDiffs did, until classifyChanges starts:
\*   few, called, stored   sources whose url had fewer than two snapshots when
\*                 they were queried, sources the provider was called for,
\*                 sources a row was inserted for
\*   gate          the last decision of the significance gate
\*   guard         the last duplicate check: "found", "absent", "failed"
\*   answer        the kind of the provider's last response to the differ
\*   sourcesError  the query for the active sources has failed
\* and between the duplicate check and the insert:
\*   guardAt       the number of rows the collection had when it was checked
\* the rows computeDiffs inserted, until classifyChanges has fetched its rows:
\*   storedRows    their ids
\* what classifyChanges did, until main returns:
\*   upd, updated  the last update, "ok", "error" or "rejected", and the id
\*                 of its row
\* and for the whole run:
\*   threw         an exception escaped computeDiffs
IdleRun ==
    [pc |-> "idle", queue |-> <<>>, old |-> 0, new |-> 0,
     latestSummary |-> JStr(<<>>), diffJson |-> JNull, rows |-> <<>>,
     classification |-> JNull, explanation |-> JNull, exit |-> -1,
     few |-> {}, called |-> {}, stored |-> {}, gate |-> "none",
     guard |-> "none", threw |-> FALSE, upd |-> "none", updated |-> 0,
     storedRows |-> {}, answer |-> "none", sourcesError |-> FALSE, guardAt |-> 0]

NoResponses == [s \in SourceIds |-> 0]

NoHistory ==
    [second |-> FALSE, fresh |-> TRUE, curOk |-> FALSE, resp |-> NoResponses,
     repeat |-> FALSE, inserted |-> FALSE]

IdleCall == [pc |-> "idle", model |-> "", wake |-> 0]

IdleTest ==
    [pc |-> "idle", id1 |-> 0, id2 |-> 0, old |-> 0, new |-> 0, source |-> 0,
     latestSummary |-> JStr(<<>>), diffJson |-> JNull, outcome |-> "none", exit |-> -1]

NoProbe ==
    [fn |-> "none", tokens |-> <<>>, pad |-> 0, context |-> 0, limit |-> 0,
     kind |-> "", res |-> JUndef]

Init ==
    /\ snapshots = InitialSnapshots
    /\ changes = <<>>
    /\ run = [r \in Runs |-> IdleRun]
    /\ guardFailed = FALSE
    /\ hist = NoHistory
    /\ now = StartTime
    /\ lastRequestTime = [m \in {} |-> 0]
    /\ calls = [c \in Callers |-> IdleCall]
    /\ starts = <<>>
    /\ issued = 0
    /\ probe = NoProbe
    /\ test = IdleTest

Stopped(r) == run[r].pc \in {"idle", "exit"}

\* the loop taking the same source again
nextSource_SameSource(rec) ==
    [rec EXCEPT !.pc = "snapshots", !.old = 0, !.new = 0,
                !.latestSummary = JStr(<<>>), !.diffJson = JNull, !.guardAt = 0]

\* the loop of computeDiffs goes to its next source, or the stage returns
\* and main calls classifyChanges
nextSource(rec) ==
    LET rest == Tail(rec.queue) IN
    [rec EXCEPT !.queue = rest,
                !.pc = IF rest = <<>> THEN "unclassified" ELSE "snapshots",
                !.old = 0, !.new = 0,
                !.latestSummary = JStr(<<>>), !.diffJson = JNull, !.guardAt = 0]

escape_Classifies(rec) ==
    [rec EXCEPT !.pc = "unclassified", !.queue = <<>>,
                !.old = 0, !.new = 0,
                !.latestSummary = JStr(<<>>), !.diffJson = JNull]

\* an exception escapes the stage: main().catch logs it and exits with 1
escape(rec) ==
    [rec EXCEPT !.pc = "exit", !.exit = 1, !.queue = <<>>, !.rows = <<>>,
                !.old = 0, !.new = 0,
                !.latestSummary = JStr(<<>>), !.diffJson = JNull,
                !.classification = JNull, !.explanation = JNull]

\* main() returns: the process exits with 0
finish(rec) ==
    [rec EXCEPT !.pc = "exit", !.exit = 0, !.rows = <<>>,
                !.classification = JNull, !.explanation = JNull,
                !.upd = "none", !.updated = 0, !.storedRows = {}]

\* computeDiffs has returned and classifyChanges starts
classifying(rec) ==
    [rec EXCEPT !.few = {}, !.called = {}, !.stored = {},
                !.gate = "none", !.guard = "none", !.answer = "none",
                !.sourcesError = FALSE]

SnapshotById(id) == snapshots[CHOOSE i \in 1..Len(snapshots) : snapshots[i].id = id]

(***************************************************************************)
(* The scraper captures a snapshot.                                        *)
(***************************************************************************)
AddSnapshot ==
    /\ Len(snapshots) < MaxSnapshots
    /\ \E u \in ScrapedUrls, c \in SnapshotContents :
          snapshots' = Append(snapshots,
                              Snapshot(Len(snapshots) + 1, u, c, Len(snapshots) + 1))
    /\ UNCHANGED <<changes, run, guardFailed>>
    /\ UNCHANGED govVars

(***************************************************************************)
(* main(): a run starts and calls computeDiffs.                            *)
(***************************************************************************)
StartRun(r) ==
    /\ Stopped(r)
    /\ run' = [run EXCEPT ![r] = [IdleRun EXCEPT !.pc = "sources"]]
    /\ UNCHANGED <<snapshots, changes, guardFailed>>
    /\ UNCHANGED govVars

(***************************************************************************)
(* computeDiffs                                                            *)
(***************************************************************************)
\* the failure raised to main
sourcesFailed_Throws(rec) == escape([rec EXCEPT !.threw = TRUE])

\* the query for the active sources has failed: computeDiffs logs the error
\* and returns, and main calls classifyChanges
sourcesFailed(rec) == [rec EXCEPT !.pc = "unclassified", !.sourcesError = TRUE]

\* the query for the active sources
FetchSources(r, ok) ==
    /\ run[r].pc = "sources"
    /\ run' = [run EXCEPT ![r] =
                    IF ok
                    THEN [@ EXCEPT !.queue = [i \in 1..Len(activeSources) |-> activeSources[i].id],
                                   !.pc = IF activeSources = <<>> THEN "unclassified"
                                          ELSE "snapshots"]
                    ELSE sourcesFailed(@)]
    /\ UNCHANGED <<snapshots, changes, guardFailed>>
    /\ UNCHANGED govVars

\* the query for the two latest snapshots of the source, then extractText
FetchSnapshots(r, ok) ==
    /\ run[r].pc = "snapshots"
    /\ LET sid == Head(run[r].queue)
           found == twoLatestSnapshots(snapshots, SourceById(sid).url)
           lacking == Cardinality({x \in Rows(snapshots) : x.url = SourceById(sid).url}) < 2
           rec == IF ok /\ lacking THEN [run[r] EXCEPT !.few = @ \cup {sid}] ELSE run[r] IN
          run' = [run EXCEPT ![r] =
                    IF ~ok THEN nextSource(rec)
                    ELSE IF tooFewSnapshots(found) THEN nextSource(rec)
                    ELSE IF Len(found) < 2      \* snapshotOld is undefined: .id throws
                    THEN escape([rec EXCEPT !.threw = TRUE])
                    ELSE [rec EXCEPT !.pc = "latest",
                                     !.new = found[1].id, !.old = found[2].id]]
    /\ UNCHANGED <<snapshots, changes, guardFailed>>
    /\ UNCHANGED govVars

\* a failed query skipping the source
latestFetched_SkipsOnError(rec, table, sid, ok) ==
    IF ok
    THEN [rec EXCEPT !.pc = "provider", !.latestSummary = latestSummaryOf(table, sid, ok)]
    ELSE nextSource(rec)

\* the query for the prior summary has returned; changeError is not looked
\* at, and the summary is '' when there is no data
latestFetched(rec, table, sid, ok) ==
    [rec EXCEPT !.pc = "provider", !.latestSummary = latestSummaryOf(table, sid, ok)]

\* the query for the prior summary, then the budget (text.length throws on
\* a null text) and the prompt
FetchLatest(r, ok) ==
    /\ run[r].pc = "latest"
    /\ LET sid == Head(run[r].queue)
           textOld == extractText(SnapshotById(run[r].old).content)
           textNew == extractText(SnapshotById(run[r].new).content) IN
          run' = [run EXCEPT ![r] =
                    IF ThrowsOnLength(textOld) \/ ThrowsOnLength(textNew)
                    THEN escape([@ EXCEPT !.threw = TRUE])
                    ELSE latestFetched(@, changes, sid, ok)]
    /\ UNCHANGED <<snapshots, changes, guardFailed>>
    /\ UNCHANGED govVars

\* the provider answers with resp; getLLMChangeSummary and the significance
\* gate
Answered(r, resp) ==
    /\ run[r].pc = "provider"
    /\ LET sid == Head(run[r].queue)
           diffJson == getLLMChangeSummary(resp)
           gate == significanceGate(diffJson)
           rec == [run[r] EXCEPT !.called = @ \cup {sid}, !.gate = gate,
                                 !.answer = answerKind(resp)] IN
          run' = [run EXCEPT ![r] =
                    CASE gate = "store" -> [rec EXCEPT !.pc = "guard", !.diffJson = diffJson,
                                                       !.latestSummary = JStr(<<>>)]
                      [] gate = "throw" -> escape([rec EXCEPT !.threw = TRUE])
                      [] OTHER -> nextSource(rec)]
    /\ UNCHANGED <<snapshots, changes, guardFailed>>

ProviderAnswer(r, resp) == Answered(r, resp) /\ UNCHANGED govVars

ProviderCall(r, k) == ProviderAnswer(r, DiffResponses[k])

\* the duplicate check
GuardCheck(r, ok) ==
    /\ run[r].pc = "guard"
    /\ LET exists == diffExists(changes, run[r].old, run[r].new, ok)
           rec == [run[r] EXCEPT !.guard = IF ~ok THEN "failed"
                                           ELSE IF exists THEN "found" ELSE "absent"] IN
          /\ run' = [run EXCEPT ![r] =
                       IF exists THEN nextSource(rec)
                       ELSE [rec EXCEPT !.pc = "insert", !.guardAt = Len(changes)]]
          /\ guardFailed' = (guardFailed \/ ~ok)
    /\ UNCHANGED <<snapshots, changes>>
    /\ UNCHANGED govVars

\* the insert; it fails on a store error, and always when the collection
\* is full
InsertChange(r, ok) ==
    /\ run[r].pc = "insert"
    /\ LET sid == Head(run[r].queue) IN
          /\ ok => Len(changes) < MaxChanges
          /\ changes' = IF ok
                        THEN insertChange(changes, sid, run[r].old, run[r].new, run[r].diffJson)
                        ELSE changes
          /\ run' = [run EXCEPT ![r] =
                       nextSource(IF ok THEN [@ EXCEPT !.stored = @ \cup {sid},
                                                       !.storedRows = @ \cup {Len(changes) + 1}]
                                  ELSE @)]
    /\ UNCHANGED <<snapshots, guardFailed>>
    /\ UNCHANGED govVars

(***************************************************************************)
(* classifyChanges                                                         *)
(***************************************************************************)
\* the stage returning after the row in hand
nextRow_Returns(rec) == finish(rec)

\* the loop taking the same row again
nextRow_SameRow(rec) ==
    [rec EXCEPT !.pc = "classify", !.classification = JNull, !.explanation = JNull]

\* the loop of classifyChanges goes to its next row, or the stage returns
nextRow(rec) ==
    LET rest == Tail(rec.rows) IN
    IF rest = <<>> THEN finish(rec)
    ELSE [rec EXCEPT !.rows = rest, !.pc = "classify",
                     !.classification = JNull, !.explanation = JNull]

\* the query for the unclassified rows
FetchUnclassified(r, ok) ==
    /\ run[r].pc = "unclassified"
    /\ LET found == unclassifiedChanges(changes) IN
          run' = [run EXCEPT ![r] =
                    IF ~ok \/ found = <<>> THEN finish(classifying(@))
                    ELSE [classifying(@) EXCEPT !.pc = "urls", !.rows = found]]
    /\ UNCHANGED <<snapshots, changes, guardFailed>>
    /\ UNCHANGED govVars

\* the query for the urls of the rows' sources
FetchUrls(r, ok) ==
    /\ run[r].pc = "urls"
    /\ run' = [run EXCEPT ![r] = IF ok THEN [@ EXCEPT !.pc = "classify", !.storedRows = {}]
                                 ELSE finish(@)]
    /\ UNCHANGED <<snapshots, changes, guardFailed>>
    /\ UNCHANGED govVars

\* one row: the check of its diff, the provider call, the parse
Classified(r, k) ==
    /\ run[r].pc = "classify"
    /\ LET change == Head(run[r].rows)
           res == classifyResult(ClassResponses[k]) IN
       run' = [run EXCEPT ![r] =
                 IF invalidDiff(change.diff) THEN nextRow(@)
                 ELSE IF res.kind = "update"
                 THEN [@ EXCEPT !.pc = "update",
                                !.classification = res.classification,
                                !.explanation = res.explanation]
                 ELSE nextRow(@)]
    /\ UNCHANGED <<snapshots, changes, guardFailed>>

ClassifyCall(r, k) == Classified(r, k) /\ UNCHANGED govVars

\* the update of the row; the store reports an error when the request fails
\* and when the CHECK constraint rejects the value
UpdateChange(r, ok) ==
    /\ run[r].pc = "update"
    /\ LET change == Head(run[r].rows) IN
          LET written == IF ok
                         THEN updateChange(changes, change.id, run[r].classification,
                                           run[r].explanation)
                         ELSE changes IN
          /\ changes' = written
          /\ run' = [run EXCEPT ![r] =
                       nextRow([@ EXCEPT !.updated = change.id,
                                         !.upd = IF ~ok THEN "error"
                                                 ELSE IF written = changes THEN "rejected"
                                                 ELSE "ok"])]
    /\ UNCHANGED <<snapshots, guardFailed>>
    /\ UNCHANGED govVars

(***************************************************************************)
(* Runs one after another: one pipeline process, started again after exit. *)
(***************************************************************************)
Scheduled == {1}

Next ==
    \/ AddSnapshot /\ UNCHANGED <<hist, probe, test>>
    \/ \E r \in Scheduled : StartRun(r) /\ UNCHANGED <<hist, probe, test>>
    \/ \E r \in Scheduled, ok \in BOOLEAN : FetchSources(r, ok) /\ UNCHANGED <<hist, probe, test>>
    \/ \E r \in Scheduled, ok \in BOOLEAN : FetchSnapshots(r, ok) /\ UNCHANGED <<hist, probe, test>>
    \/ \E r \in Scheduled, ok \in BOOLEAN : FetchLatest(r, ok) /\ UNCHANGED <<hist, probe, test>>
    \/ \E r \in Scheduled, k \in 1..Len(DiffResponses) : ProviderCall(r, k) /\ UNCHANGED <<hist, probe, test>>
    \/ \E r \in Scheduled, ok \in BOOLEAN : GuardCheck(r, ok) /\ UNCHANGED <<hist, probe, test>>
    \/ \E r \in Scheduled, ok \in BOOLEAN : InsertChange(r, ok) /\ UNCHANGED <<hist, probe, test>>
    \/ \E r \in Scheduled, ok \in BOOLEAN : FetchUnclassified(r, ok) /\ UNCHANGED <<hist, probe, test>>
    \/ \E r \in Scheduled, ok \in BOOLEAN : FetchUrls(r, ok) /\ UNCHANGED <<hist, probe, test>>
    \/ \E r \in Scheduled, k \in 1..Len(ClassResponses) : ClassifyCall(r, k) /\ UNCHANGED <<hist, probe, test>>
    \/ \E r \in Scheduled, ok \in BOOLEAN : UpdateChange(r, ok) /\ UNCHANGED <<hist, probe, test>>

Spec == Init /\ [][Next]_vars

(***************************************************************************)
(* The same runs, with the record of two runs in a row kept.               *)
(***************************************************************************)
\* a run starts
histStart(r) ==
    LET second == run[r].pc = "exit" /\ ~hist.fresh IN
    [second |-> second, fresh |-> FALSE, curOk |-> TRUE, resp |-> hist.resp,
     repeat |-> second /\ hist.curOk, inserted |-> FALSE]

\* a store operation of the diff stage returned
histStore(ok) ==
    IF ok \/ hist.fresh THEN hist
    ELSE [hist EXCEPT !.curOk = FALSE, !.repeat = FALSE, !.resp = NoResponses]

\* the insert returned
histInsert(ok) ==
    IF ok THEN [hist EXCEPT !.inserted = hist.second] ELSE histStore(ok)

\* the provider answered the differ for the source at the head of the queue
histResp(r, k) ==
    LET sid == Head(run[r].queue) IN
    [hist EXCEPT !.repeat = @ /\ hist.resp[sid] = k,
                 !.resp[sid] = IF hist.curOk THEN k ELSE 0]

\* the scraper captured a snapshot
histSnapshot == NoHistory

NextIdem ==
    \/ AddSnapshot /\ hist' = histSnapshot /\ UNCHANGED <<probe, test>>
    \/ \E r \in Scheduled : StartRun(r) /\ hist' = histStart(r) /\ UNCHANGED <<probe, test>>
    \/ \E r \in Scheduled, ok \in BOOLEAN : FetchSources(r, ok) /\ hist' = histStore(ok) /\ UNCHANGED <<probe, test>>
    \/ \E r \in Scheduled, ok \in BOOLEAN : FetchSnapshots(r, ok) /\ hist' = histStore(ok) /\ UNCHANGED <<probe, test>>
    \/ \E r \in Scheduled, ok \in BOOLEAN : FetchLatest(r, ok) /\ hist' = histStore(ok) /\ UNCHANGED <<probe, test>>
    \/ \E r \in Scheduled, k \in 1..Len(DiffResponses) : ProviderCall(r, k) /\ hist' = histResp(r, k) /\ UNCHANGED <<probe, test>>
    \/ \E r \in Scheduled, ok \in BOOLEAN : GuardCheck(r, ok) /\ hist' = histStore(ok) /\ UNCHANGED <<probe, test>>
    \/ \E r \in Scheduled, ok \in BOOLEAN : InsertChange(r, ok) /\ hist' = histInsert(ok) /\ UNCHANGED <<probe, test>>
    \/ \E r \in Scheduled, ok \in BOOLEAN : FetchUnclassified(r, ok) /\ UNCHANGED <<hist, probe, test>>
    \/ \E r \in Scheduled, ok \in BOOLEAN : FetchUrls(r, ok) /\ UNCHANGED <<hist, probe, test>>
    \/ \E r \in Scheduled, k \in 1..Len(ClassResponses) : ClassifyCall(r, k) /\ UNCHANGED <<hist, probe, test>>
    \/ \E r \in Scheduled, ok \in BOOLEAN : UpdateChange(r, ok) /\ UNCHANGED <<hist, probe, test>>

SpecIdem == Init /\ [][NextIdem]_vars

(***************************************************************************)
(* The rate limiter (createRateLimitedClient).                             *)
(***************************************************************************)
\* the table of requests per minute
RATE_LIMITS ==
    [m \in {"gemini-2.0-flash", "gemini-2.0-flash-lite"} |->
        IF m = "gemini-2.0-flash" THEN 15 ELSE 30]

\* the requests per minute of a model the table does not have
DefaultRpm == 15

\* the models create() is called with: one of the table, one absent from it
ModelNames == {"gemini-2.0-flash-lite", "llama-3.3-70b-instruct"}

\* rateLimits[model] || 15
rpmOf(rateLimits, model) ==
    IF model \in DOMAIN rateLimits /\ rateLimits[model] # 0
    THEN rateLimits[model]
    ELSE DefaultRpm

minDelayMs_Halved(rpm) == 30000 \div rpm

\* 60000 / rpm (a whole number for the rates of the table and the default)
minDelayMs(rpm) == 60000 \div rpm

\* if (!lastRequestTime[model]) lastRequestTime[model] = 0
initialised(state, model) ==
    IF model \in DOMAIN state /\ state[model] # 0 THEN state
    ELSE [m \in DOMAIN state \cup {model} |-> IF m = model THEN 0 ELSE state[m]]

\* a state with one timestamp for all models
started_AllModels(state, model, waited) ==
    /\ lastRequestTime' = [m \in DOMAIN state |-> now]
    /\ starts' = Append(starts, [model |-> model, at |-> now, waited |-> waited])

\* lastRequestTime[model] = Date.now(), then the underlying call starts
started(state, model, waited) ==
    /\ lastRequestTime' = [state EXCEPT ![model] = now]
    /\ starts' = Append(starts, [model |-> model, at |-> now, waited |-> waited])

\* create(params) up to its first suspension: with the interval elapsed it
\* starts the underlying call at once, otherwise it sets the timer
Create(c, model) ==
    /\ calls[c].pc = "idle"
    /\ issued < MaxCalls
    /\ issued' = issued + 1
    /\ LET minDelay == minDelayMs(rpmOf(RATE_LIMITS, model))
           state == initialised(lastRequestTime, model)
           timeElapsed == now - state[model] IN
          IF timeElapsed < minDelay
          THEN /\ calls' = [calls EXCEPT ![c] =
                              [pc |-> "waiting", model |-> model,
                               wake |-> now + (minDelay - timeElapsed)]]
               /\ lastRequestTime' = state
               /\ UNCHANGED starts
          ELSE /\ calls' = [calls EXCEPT ![c] = [pc |-> "calling", model |-> model, wake |-> 0]]
               /\ started(state, model, FALSE)
    /\ UNCHANGED <<now, snapshots, changes, run, guardFailed, hist, probe, test>>

\* the timer fires, not before its delay: create() resumes and starts the
\* underlying call
Wake(c) ==
    /\ calls[c].pc = "waiting"
    /\ now >= calls[c].wake
    /\ calls' = [calls EXCEPT ![c] = [pc |-> "calling", model |-> calls[c].model, wake |-> 0]]
    /\ started(lastRequestTime, calls[c].model, TRUE)
    /\ UNCHANGED <<now, issued, snapshots, changes, run, guardFailed, hist, probe, test>>

\* the underlying call returns its result or its error to the caller
Return(c) ==
    /\ calls[c].pc = "calling"
    /\ calls' = [calls EXCEPT ![c] = IdleCall]
    /\ UNCHANGED <<now, lastRequestTime, starts, issued, snapshots, changes, run, guardFailed, hist, probe, test>>

\* time passes
Tick ==
    /\ now < StartTime + HorizonMs
    /\ now' = now + TickMs
    /\ UNCHANGED <<lastRequestTime, calls, starts, issued, snapshots, changes, run, guardFailed, hist, probe, test>>

\* a caller given a result for an error
settled_AlwaysResult(outcome) == "result"

\* return openai.chat.completions.create(params): the promise of create()
\* settles as the promise of the underlying call does
settled(outcome) == outcome

\* the underlying call settles, with a result or with an error, and the
\* caller has what create() gives it (Return, with the outcome kept)
Settle(c, outcome) ==
    /\ calls[c].pc = "calling"
    /\ calls' = [calls EXCEPT ![c] =
                    [pc |-> "idle", model |-> "", wake |-> 0,
                     given |-> outcome, got |-> settled(outcome)]]
    /\ UNCHANGED <<now, lastRequestTime, starts, issued, snapshots, changes, run, guardFailed, hist, probe, test>>

\* time passes, for as long as the horizon is not reached or a timer is set
\* for later
Elapse ==
    /\ \/ now < StartTime + HorizonMs
       \/ \E c \in Callers : calls[c].pc = "waiting" /\ now < calls[c].wake
    /\ now' = now + TickMs
    /\ UNCHANGED <<lastRequestTime, calls, starts, issued, snapshots, changes, run, guardFailed, hist, probe, test>>

\* callers that await each call before the next is made
NoCallInProgress == \A c \in Callers : calls[c].pc = "idle"

NextGovSeq ==
    \/ \E c \in Callers, m \in ModelNames : NoCallInProgress /\ Create(c, m)
    \/ \E c \in Callers : Wake(c)
    \/ \E c \in Callers : Return(c)
    \/ Tick

SpecGovSeq == Init /\ [][NextGovSeq]_vars

\* callers that call at any time
NextGov ==
    \/ \E c \in Callers, m \in ModelNames : Create(c, m)
    \/ \E c \in Callers : Wake(c)
    \/ \E c \in Callers : Return(c)
    \/ Tick

SpecGov == Init /\ [][NextGov]_vars

\* two callers that call at any time and keep what they are given; time
\* passes, a timer that is due fires, and the provider answers
Pair == {c \in Callers : c <= 2}

NextGovLive ==
    \/ \E c \in Pair, m \in ModelNames : Create(c, m)
    \/ \E c \in Pair : Wake(c)
    \/ \E c \in Pair, outcome \in {"result", "error"} : Settle(c, outcome)
    \/ Elapse

SpecGovLive ==
    /\ Init
    /\ [][NextGovLive]_vars
    /\ WF_vars(Elapse)
    /\ \A c \in Pair : WF_vars(Wake(c))

(***************************************************************************)
(* The functions of the code applied on their own.  An input text is made  *)
(* of at most MaxTokens pieces of JSON and raw text, and can end with an   *)
(* unterminated string about as long as the salvage limit, as a response   *)
(* cut short does.                                                         *)
(***************************************************************************)
TokenText ==
    << <<"{">>,
       <<"}">>,
       <<"\"","t","e","x","t","C","o","n","t","e","n","t","\"",":">>,
       <<"\"","s","u","m","m","a","r","y","\"",":">>,
       <<"\"","h","e","l","l","o","\"">>,
       <<"n","u","l","l">>,
       <<"p","l","a","i","n"," ","t","e","x","t">>,
       <<",">> >>

Tokens == 1..Len(TokenText)

PadLengths == (SalvageLimit - PadSlack)..(SalvageLimit + PadSlack)

\* the context sizes: from the smallest whose budget is not negative, and
\* the one of the configured differ
MinContext == (PromptOverheadChars + 3) \div 4

Contexts == MinContext..(MinContext + ContextSpan) \cup {DifferContext}

RECURSIVE Flat(_)
Flat(tokens) ==
    IF tokens = <<>> THEN <<>> ELSE TokenText[Head(tokens)] \o Flat(Tail(tokens))

InputText(p) ==
    Flat(p.tokens) \o (IF p.pad = 0 THEN <<>> ELSE <<"\"">> \o [i \in 1..p.pad |-> "a"])

\* a piece is added to the input
Type(tok) ==
    /\ probe.fn = "none"
    /\ probe.pad = 0
    /\ Len(probe.tokens) < MaxTokens
    /\ probe' = [probe EXCEPT !.tokens = Append(@, tok)]
    /\ UNCHANGED <<pipeVars, hist, govVars, test>>

\* the input ends with an unterminated string of n characters
Pad(n) ==
    /\ probe.fn = "none"
    /\ probe.pad = 0
    /\ Len(probe.tokens) <= MaxPaddedTokens
    /\ probe' = [probe EXCEPT !.pad = n]
    /\ UNCHANGED <<pipeVars, hist, govVars, test>>

\* extractText(content) for the input as content
CallExtractText ==
    /\ probe.fn = "none"
    /\ probe' = [probe EXCEPT !.fn = "extractText",
                              !.res = extractText(JStr(InputText(probe)))]
    /\ UNCHANGED <<pipeVars, hist, govVars, test>>

\* the budget of computeDiffs for the input as text, with differ.context
CallBudget(context) ==
    /\ probe.fn = "none"
    /\ probe' = [probe EXCEPT !.fn = "budget",
                              !.context = context,
                              !.limit = maxChars(context),
                              !.res = JStr(budget(InputText(probe), maxChars(context)))]
    /\ UNCHANGED <<pipeVars, hist, govVars, test>>

\* getLLMChangeSummary for a provider call that threw, or returned the
\* input as message.content with finish reason "stop" or "length"
CallSummary(kind) ==
    /\ probe.fn = "none"
    /\ probe' = [probe EXCEPT !.fn = "summary",
                              !.kind = kind,
                              !.res = getLLMChangeSummary(
                                          DiffResponse(kind = "error", kind,
                                                       JStr(InputText(probe))))]
    /\ UNCHANGED <<pipeVars, hist, govVars, test>>

NextText ==
    \/ \E tok \in Tokens : Type(tok)
    \/ CallExtractText

SpecText == Init /\ [][NextText]_vars

NextBudget ==
    \/ \E tok \in Tokens : Type(tok)
    \/ \E context \in Contexts : CallBudget(context)

SpecBudget == Init /\ [][NextBudget]_vars

NextSummary ==
    \/ \E tok \in Tokens : Type(tok)
    \/ \E n \in PadLengths : Pad(n)
    \/ \E kind \in {"error", "stop", "length"} : CallSummary(kind)

SpecSummary == Init /\ [][NextSummary]_vars

(***************************************************************************)
(* Properties of the pipeline.                                             *)
(***************************************************************************)
PairRows(id1, id2) ==
    {i \in 1..Len(changes) : changes[i].snapshot_id1 = id1 /\ changes[i].snapshot_id2 = id2}

NoDuplicatePair ==
    \A i, j \in 1..Len(changes) :
        (/\ changes[i].snapshot_id1 = changes[j].snapshot_id1
         /\ changes[i].snapshot_id2 = changes[j].snapshot_id2) => i = j

Range(seq) == {seq[i] : i \in 1..Len(seq)}

\* C1 as stated: over runs executed one after another, the changes
\* collection never holds two rows with the same ordered pair
\* (snapshot_id1, snapshot_id2).
C1_NoDuplicatePair == NoDuplicatePair

\* C1, amended: over runs executed one after another in which every
\* duplicate-check query succeeds, the changes collection never holds two
\* rows with the same ordered pair (snapshot_id1, snapshot_id2).
C1_NoDuplicatePairWhileGuardReads == ~guardFailed => NoDuplicatePair

\* a later run met the pair of an earlier one, and its duplicate check found the row
C1_Witness ==
    /\ ~guardFailed
    /\ Len(changes) = 1
    /\ \E r \in Runs : run[r].guard = "found" /\ run[r].called # {} /\ run[r].stored = {}

\* C2: when a row exists for the pair of a source and the duplicate check
\* of a run succeeds, the run does not go on to insert a row for that pair:
\* a run stands at its insert only after a check that found nothing or
\* failed, and after a check that found nothing no row has the pair.
C2_NoInsertWhenGuardFinds ==
    \A r \in Runs :
        run[r].pc = "insert" =>
            /\ run[r].guard \in {"absent", "failed"}
            /\ run[r].guard = "absent" => PairRows(run[r].old, run[r].new) = {}

\* a run got a significant summary for a pair that has a row, its check
\* found the row, and the stage returned with no insert
C2_Witness ==
    \E r \in Runs :
        /\ run[r].pc = "unclassified"
        /\ run[r].gate = "store"
        /\ run[r].guard = "found"
        /\ run[r].stored = {}
        /\ PairRows(1, 2) # {}

\* C4: a source whose url has fewer than two snapshots gets no provider
\* call and no row in that run, and the loop has moved past it.
C4_FewSnapshotsSkipped ==
    \A r \in Runs :
        run[r].few \cap (run[r].called \cup run[r].stored \cup Range(run[r].queue)) = {}

\* a run skipped source 2 for lack of snapshots, after calling the provider for source 1
C4_Witness ==
    \E r \in Runs : 2 \in run[r].few /\ 1 \in run[r].called /\ run[r].pc = "unclassified"

\* C5: no stored row has a diff.summary that is missing, empty, or
\* contains "no significant changes" in any letter case.
C5_SignificantSummariesOnly ==
    \A i \in 1..Len(changes) :
        LET summary == Get(changes[i].diff, SummaryKey) IN
        /\ summary.t = "str"
        /\ summary.s # <<>>
        /\ ~includes(toLowerCase(summary.s), NoSigPhrase)

\* the provider answered "No Significant Changes detected." and the source was skipped
C5_Witness ==
    \E r \in Runs :
        /\ run[r].gate = "nosig"
        /\ run[r].called # {}
        /\ run[r].stored = {}
        /\ run[r].pc = "unclassified"

\* C6: whatever goes wrong while a source is processed, no exception
\* escapes computeDiffs.
C6_NoExceptionEscapesDiffStage == \A r \in Runs : ~run[r].threw

\* C7: the classification of every row is unset or one of the six
\* literals, and a row whose update was rejected is left unclassified.
C7_ClosedVocabulary ==
    /\ \A i \in 1..Len(changes) :
          \/ changes[i].classification = JNull
          \/ /\ changes[i].classification.t = "str"
             /\ changes[i].classification.s \in Classifications
    /\ \A r \in Runs :
          run[r].upd = "rejected" =>
              \A i \in 1..Len(changes) :
                  changes[i].id = run[r].updated => changes[i].classification = JNull

\* the provider returned a classification outside the six and the row stays unclassified
C7_Witness ==
    \E r \in Runs :
        /\ run[r].upd = "rejected"
        /\ \E i \in 1..Len(changes) :
              changes[i].id = run[r].updated /\ changes[i].classification = JNull

\* C8: every row has its classification set exactly when its explanation
\* is set.
C8_ClassificationWithExplanation ==
    \A i \in 1..Len(changes) :
        (changes[i].classification = JNull) <=> (changes[i].explanation = JNull)

\* the classifier has just written both fields of a row
C8_Witness ==
    \E r \in Runs, i \in 1..Len(changes) :
        /\ run[r].upd = "ok"
        /\ changes[i].id = run[r].updated
        /\ changes[i].classification # JNull
        /\ changes[i].explanation # JNull

RequiredGapMs(model) ==
    IF model = "gemini-2.0-flash-lite" THEN 2000
    ELSE IF model = "gemini-2.0-flash" THEN 4000
    ELSE 4000

\* C9: with one caller at a time, any two underlying provider calls for
\* the same model start at least 60000 / RPM(model) milliseconds apart:
\* 2000 ms for gemini-2.0-flash-lite at 30 RPM, 4000 ms for a model absent
\* from the table.
C9_GapBetweenConsecutiveCalls ==
    \A i, j \in 1..Len(starts) :
        (i < j /\ starts[i].model = starts[j].model)
            => starts[j].at - starts[i].at >= RequiredGapMs(starts[i].model)

\* a second call for a model came before the interval had elapsed, waited,
\* and started
C9_Witness ==
    \E i, j \in 1..Len(starts) :
        /\ i < j
        /\ starts[i].model = starts[j].model
        /\ starts[j].waited
        /\ starts[j].at - starts[i].at >= RequiredGapMs(starts[i].model)

\* C10: with calls for the same model in progress at once, any two
\* underlying provider calls for that model still start at least
\* 60000 / RPM(model) milliseconds apart.
C10_GapUnderConcurrentCallers ==
    \A i, j \in 1..Len(starts) :
        (i < j /\ starts[i].model = starts[j].model)
            => starts[j].at - starts[i].at >= 60000 \div rpmOf(RATE_LIMITS, starts[i].model)
(***************************************************************************)
(* Properties of the functions applied on their own.                       *)
(***************************************************************************)
\* C11 as stated: for every string content, extractText returns the
\* textContent field of the parsed JSON, the empty string when the field
\* is absent, and the content unchanged when it does not parse.
C11_ExtractTextFieldOrRaw ==
    probe.fn = "extractText" =>
        LET content == InputText(probe)
            p == JSONparse(content) IN
        IF p.ok
        THEN probe.res = (IF Get(p.v, TextContentKey) = JUndef THEN JStr(<<>>)
                          ELSE Get(p.v, TextContentKey))
        ELSE probe.res = JStr(content)

\* C11, amended: for every string content, extractText returns the
\* content unchanged when it does not parse as JSON or parses as null;
\* otherwise the textContent field of the parsed value when that field is
\* truthy, and the empty string when it is absent, null, false, 0 or empty.
\* It returns on every input.
C11_ExtractTextTruthyFieldOrRaw ==
    probe.fn = "extractText" =>
        LET content == InputText(probe)
            p == JSONparse(content) IN
        /\ probe.res.t \in {"str", "num", "bool", "obj"}
        /\ IF ~p.ok \/ p.v = JNull
           THEN probe.res = JStr(content)
           ELSE IF Truthy(Get(p.v, TextContentKey))
           THEN probe.res = Get(p.v, TextContentKey)
           ELSE probe.res = JStr(<<>>)

\* {"textContent":"hello"} gave hello
C11_Witness ==
    /\ probe.fn = "extractText"
    /\ probe.tokens = <<1, 3, 5, 2>>
    /\ probe.res = JStr(<<"h","e","l","l","o">>)
C13_SalvagedSummaryWithinLimit ==
    (probe.fn = "summary" /\ probe.kind = "length") =>
        Len(Get(probe.res, SummaryKey).s) <= 40000

\* C13, amended: for a response with finish reason "length", the summary
\* getLLMChangeSummary returns is at most 40003 characters long: a salvaged
\* text of more than 40000 characters is cut to its first 40000 characters
\* and followed by "...".
C13_SalvagedSummaryWithinLimitAndEllipsis ==
    (probe.fn = "summary" /\ probe.kind = "length") =>
        LET summary == Get(probe.res, SummaryKey).s
            found == trim(summaryMatch(InputText(probe))) IN
        /\ Len(summary) <= 40003
        /\ Len(found) <= 40000 => (summary = found \/ found = <<>>)
        /\ Len(found) > 40000 =>
              /\ Len(summary) = 40003
              /\ SubSeq(summary, 1, 40000) = SubSeq(found, 1, 40000)
              /\ SubSeq(summary, 40001, 40003) = <<".", ".", ".">>

\* a response cut short inside a summary of more than 40000 characters
\* gave a summary of 40003
C13_Witness ==
    /\ probe.fn = "summary"
    /\ probe.kind = "length"
    /\ probe.pad > 40000
    /\ Len(Get(probe.res, SummaryKey).s) = 40003
(***************************************************************************)
(* Further properties of the pipeline.                                     *)
(***************************************************************************)
\* C14: at every duplicate check, diffExists answers true, and the source
\* is skipped, only when the query succeeded and a row has exactly the
\* ordered pair; when the query succeeded with no such row, and when it
\* failed, the answer is false and computeDiffs goes on to its insert.
C14_GuardContract ==
    [][\A r \in Runs :
          (run[r].pc = "guard" /\ run'[r].pc # "guard") =>
              LET matched == PairRows(run[r].old, run[r].new) # {}
                  skipped == run'[r].pc # "insert" IN
              /\ skipped <=> (run'[r].guard = "found")
              /\ run'[r].guard = "found" => matched
              /\ run'[r].guard = "absent" => ~matched
              /\ run'[r].guard \in {"found", "absent", "failed"}]_vars

\* the query failed for a pair that has a row, and the run is at its insert
C14_Witness ==
    \E r \in Runs :
        /\ run[r].pc = "insert"
        /\ run[r].guard = "failed"
        /\ PairRows(run[r].old, run[r].new) # {}
\* C15: within a run the classifier (its fetch of the unclassified rows, its
\* provider calls, its updates) acts only when computeDiffs has gone through
\* every active source, and the rows its fetch returns include every row
\* computeDiffs inserted in that run.
C15_ClassifierAfterDiffStage ==
    \A r \in Runs :
        /\ run[r].pc \in {"unclassified", "urls", "classify", "update"} =>
               run[r].queue = <<>>
        /\ run[r].pc = "unclassified" =>
               \A id \in run[r].storedRows :
                   \E i \in 1..Len(unclassifiedChanges(changes)) :
                       unclassifiedChanges(changes)[i].id = id
        /\ run[r].pc = "urls" =>
               \A id \in run[r].storedRows :
                   \E i \in 1..Len(run[r].rows) : run[r].rows[i].id = id

\* the fetch returned a row of an earlier run and the row this run inserted
C15_Witness ==
    \E r \in Runs :
        /\ run[r].pc = "urls"
        /\ run[r].storedRows # {}
        /\ Len(run[r].rows) > Cardinality(run[r].storedRows)

\* C16: an exception that escapes a stage ends the run with exit code 1, and
\* when it escapes computeDiffs no step of classifyChanges is taken in that
\* run; a run ends with exit code 0 only when it has no escaped exception and
\* ends from classifyChanges.
ClassifierSteps == {"unclassified", "urls", "classify", "update"}

DiffSteps == {"sources", "snapshots", "latest", "provider", "guard", "insert"}

C16_ExitCodes ==
    [][\A r \in Runs :
          /\ (run'[r].threw /\ ~run[r].threw) =>
                 /\ run[r].pc \in DiffSteps
                 /\ run'[r].pc = "exit"
                 /\ run'[r].exit = 1
          /\ run[r].threw => run'[r].pc \notin ClassifierSteps
          /\ (run'[r].pc = "exit" /\ run[r].pc # "exit") =>
                 /\ run'[r].exit \in {0, 1}
                 /\ run'[r].exit = 1 <=> run'[r].threw
                 /\ run'[r].exit = 0 => run[r].pc \in ClassifierSteps
          /\ run'[r].pc # "exit" => run'[r].exit = -1]_vars

\* a run ended by an exception of computeDiffs
C16_Witness ==
    \E r \in Runs : run[r].pc = "exit" /\ run[r].threw /\ run[r].exit = 1

\* C17: end to end. The store holds the two captures S1 (older) and S2
\* (newer) of one source and no row of changes. The diff stage, given a
\* significant summary X by the provider, leaves exactly one row, with
\* snapshot_id1 = S1.id, snapshot_id2 = S2.id and diff = {summary: X}; the
\* classifier, given {classification: "breaking", explanation: E}, sets the
\* row's classification to "breaking" and its explanation to E and leaves
\* the rest of the row, its diff included, as it was.
FirstChange ==
    [id |-> 1, source_id |-> 1,
     snapshot_id1 |-> InitialSnapshots[1].id, snapshot_id2 |-> InitialSnapshots[2].id,
     diff |-> SummaryObject(<<"F","i","e","l","d"," ","X"," ","r","e","m","o","v","e","d">>),
     classification |-> JNull, explanation |-> JNull, timestamp |-> 1]

Breaking == JStr(<<"b","r","e","a","k","i","n","g">>)

FirstChangeClassified ==
    [FirstChange EXCEPT !.classification = Breaking,
                        !.explanation = JStr(<<"r","e","m","o","v","e","s"," ","a"," ","f","i","e","l","d">>)]

C17_EndToEnd ==
    [][\A r \in Runs :
          /\ (/\ run[r].pc \in DiffSteps
              /\ run'[r].pc = "unclassified"
              /\ run'[r].storedRows = {1}
              /\ snapshots' = InitialSnapshots) =>
                 changes' = <<FirstChange>>
          /\ (/\ run[r].pc = "update"
              /\ run[r].classification = Breaking
              /\ changes = <<FirstChange>>
              /\ changes' # changes) =>
                 changes' = <<FirstChangeClassified>>]_vars

\* the row of S1 and S2, classified
C17_Witness == changes = <<FirstChangeClassified>>

(***************************************************************************)
(* The diagnostic job: test-job.js calls testDiff with two snapshot ids.   *)
(* It is run against stores the pipeline and the scraper leave behind:     *)
(* the two captures of u1, with a third capture of u1 whose content is     *)
(* NULL, or with two captures of u3, a source that is no longer active;    *)
(* and no row of changes, the row of the first two captures, or that row   *)
(* classified.                                                             *)
(***************************************************************************)
TestSnapshotTables ==
    { InitialSnapshots,
      Append(InitialSnapshots, Snapshot(3, "u1", JNull, 3)),
      InitialSnapshots \o << Snapshot(3, "u3", InitialSnapshots[1].content, 3),
                             Snapshot(4, "u3", InitialSnapshots[2].content, 4) >> }

TestChangeTables == { <<>>, <<FirstChange>>, <<FirstChangeClassified>> }

\* the pairs of ids given to the job (TestSnapshotId1, TestSnapshotId2)
TestPairs == { <<1, 2>>, <<2, 1>>, <<2, 3>>, <<3, 4>>, <<1, 5>> }

InitTest ==
    /\ snapshots \in TestSnapshotTables
    /\ changes \in TestChangeTables
    /\ run = [r \in Runs |-> IdleRun]
    /\ guardFailed = FALSE
    /\ hist = NoHistory
    /\ now = StartTime
    /\ lastRequestTime = [m \in {} |-> 0]
    /\ calls = [c \in Callers |-> IdleCall]
    /\ starts = <<>>
    /\ issued = 0
    /\ probe = NoProbe
    /\ test = IdleTest

\* testDiff returns and main() with it: the process exits with 0
testReturn(rec, outcome) ==
    [IdleTest EXCEPT !.pc = "exit", !.exit = 0, !.outcome = outcome,
                     !.id1 = rec.id1, !.id2 = rec.id2]

\* an exception escapes testDiff: main().catch logs it and exits with 1
testEscape(rec) ==
    [IdleTest EXCEPT !.pc = "exit", !.exit = 1, !.outcome = "threw",
                     !.id1 = rec.id1, !.id2 = rec.id2]

\* dom_snapshots: select id, content, url where id in (snapshotId1, snapshotId2)
snapshotsByIds(table, snapshotId1, snapshotId2) ==
    {x \in Rows(table) : x.id \in {snapshotId1, snapshotId2}}

\* sources: select id where url = u and is_active = true, single(): an
\* error unless exactly one row matches. 0: no source
activeSourceOf(u, ok) ==
    LET found == {x \in Rows(sources) : x.url = u /\ x.is_active = TRUE} IN
    IF ok /\ Cardinality(found) = 1 THEN (CHOOSE x \in found : TRUE).id ELSE 0

\* step 8 with the insert of computeDiffs
testDiffStore_Inserts(table, sid, snapshotId1, snapshotId2, diffJson) ==
    insertChange(table, sid, snapshotId1, snapshotId2, diffJson)

\* step 8 of testDiff: the row that would be stored is logged, the table
\* is left as it is
testDiffStore(table, sid, snapshotId1, snapshotId2, diffJson) == table

TestStart ==
    /\ test.pc = "idle"
    /\ \E pair \in TestPairs :
          test' = [test EXCEPT !.pc = "snapshots", !.id1 = pair[1], !.id2 = pair[2]]
    /\ UNCHANGED <<pipeVars, hist, govVars, probe>>

\* the query for the two snapshots, the sort by id, extractText and the
\* log of the lengths
TestFetchSnapshots(ok) ==
    /\ test.pc = "snapshots"
    /\ LET found == snapshotsByIds(snapshots, test.id1, test.id2) IN
          test' = IF ~ok \/ Cardinality(found) # 2 THEN testReturn(test, "missing")
                  ELSE LET snapshotOld == CHOOSE x \in found : \A y \in found : x.id <= y.id
                           snapshotNew == CHOOSE x \in found : \A y \in found : x.id >= y.id IN
                       IF \/ ThrowsOnLength(extractText(snapshotOld.content))
                          \/ ThrowsOnLength(extractText(snapshotNew.content))
                       THEN testEscape(test)
                       ELSE [test EXCEPT !.pc = "source",
                                         !.old = snapshotOld.id, !.new = snapshotNew.id]
    /\ UNCHANGED <<pipeVars, hist, govVars, probe>>

\* the query for the active source of snapshotOld.url
TestFetchSource(ok) ==
    /\ test.pc = "source"
    /\ LET sid == activeSourceOf(SnapshotById(test.old).url, ok) IN
          test' = IF sid = 0 THEN testReturn(test, "no source")
                  ELSE [test EXCEPT !.pc = "latest", !.source = sid]
    /\ UNCHANGED <<pipeVars, hist, govVars, probe>>

\* the query for the prior summary
TestFetchLatest(ok) ==
    /\ test.pc = "latest"
    /\ test' = [test EXCEPT !.pc = "provider",
                            !.latestSummary = latestSummaryOf(changes, test.source, ok)]
    /\ UNCHANGED <<pipeVars, hist, govVars, probe>>

\* the provider answers; the checks of diffJson, and the log of
\* diffJson.summary.substring, which throws when the summary is no string
TestProviderCall(k) ==
    /\ test.pc = "provider"
    /\ LET diffJson == getLLMChangeSummary(DiffResponses[k]) IN
          test' = IF ~Truthy(diffJson) THEN testReturn(test, "no response")
                  ELSE IF ~Truthy(Get(diffJson, SummaryKey)) THEN testReturn(test, "no summary")
                  ELSE IF Get(diffJson, SummaryKey).t # "str" THEN testEscape(test)
                  ELSE [test EXCEPT !.pc = "guard", !.diffJson = diffJson,
                                    !.latestSummary = JStr(<<>>)]
    /\ UNCHANGED <<pipeVars, hist, govVars, probe>>

\* the duplicate check, with the ids as they were given, and step 8
TestGuardCheck(ok) ==
    /\ test.pc = "guard"
    /\ LET exists == diffExists(changes, test.id1, test.id2, ok) IN
          /\ changes' = IF exists THEN changes
                        ELSE testDiffStore(changes, test.source, test.id1, test.id2,
                                           test.diffJson)
          /\ test' = testReturn(test, IF exists THEN "exists" ELSE "absent")
    /\ UNCHANGED <<snapshots, run, guardFailed, hist, govVars, probe>>

NextTest ==
    \/ TestStart
    \/ \E ok \in BOOLEAN : TestFetchSnapshots(ok)
    \/ \E ok \in BOOLEAN : TestFetchSource(ok)
    \/ \E ok \in BOOLEAN : TestFetchLatest(ok)
    \/ \E k \in 1..Len(DiffResponses) : TestProviderCall(k)
    \/ \E ok \in BOOLEAN : TestGuardCheck(ok)

SpecTest == InitTest /\ [][NextTest]_vars

\* C18: no step of the diagnostic job inserts, updates or deletes a row of
\* changes or dom_snapshots, whichever way testDiff ends (the sources are
\* only read, by activeSourceOf).
C18_DryRun ==
    [][test' # test => (changes' = changes /\ snapshots' = snapshots)]_vars

\* testDiff found no row of the pair, logged the row that would be stored
\* and returned: the table still has no row
C18_Witness ==
    /\ test.pc = "exit"
    /\ test.outcome = "absent"
    /\ changes = <<>>

\* C19: the pair computeDiffs selects for a source is, when it is selected,
\* the capture of the source's url with the greatest captured_at (snapshotNew)
\* and the one with the second greatest (snapshotOld); the pair is kept as
\* selected until the insert, and the row inserted has snapshot_id1 =
\* snapshotOld.id and snapshot_id2 = snapshotNew.id.
PairSteps == {"latest", "provider", "guard", "insert"}

C19_TwoLatestSelected ==
    [][\A r \in Runs :
          /\ (run[r].pc = "snapshots" /\ run'[r].pc = "latest") =>
                 LET mine == {x \in Rows(snapshots) :
                                 x.url = SourceById(Head(run[r].queue)).url} IN
                 \E n \in mine : \E o \in mine \ {n} :
                     /\ n.id = run'[r].new
                     /\ o.id = run'[r].old
                     /\ \A y \in mine : y.captured_at <= n.captured_at
                     /\ \A y \in mine \ {n} : y.captured_at <= o.captured_at
          /\ (run[r].pc \in PairSteps /\ run'[r].pc \in PairSteps) =>
                 (run'[r].old = run[r].old /\ run'[r].new = run[r].new)
          /\ (run[r].pc = "insert" /\ changes' # changes) =>
                 /\ Len(changes') = Len(changes) + 1
                 /\ changes'[Len(changes')].source_id = Head(run[r].queue)
                 /\ changes'[Len(changes')].snapshot_id1 = run[r].old
                 /\ changes'[Len(changes')].snapshot_id2 = run[r].new]_vars

\* with three captures of u1 the row of the second and the third is stored
C19_Witness ==
    /\ Cardinality({x \in Rows(snapshots) : x.url = "u1"}) = 3
    /\ \E i \in 1..Len(changes) :
          changes[i].snapshot_id1 = 2 /\ changes[i].snapshot_id2 = 3

\* C20: the rows the classifier calls the provider for and updates have no
\* classification; a row whose classification is set is never changed again,
\* by this run or a later one; and with no unclassified row the classifier
\* returns after its fetch, without a provider call or a write.
RowById(id) == changes[CHOOSE i \in 1..Len(changes) : changes[i].id = id]

C20_OnlyUnclassifiedRows ==
    [][/\ \A r \in Runs :
             /\ run[r].pc \in {"classify", "update"} =>
                    \A j \in 1..Len(run[r].rows) :
                        RowById(run[r].rows[j].id).classification = JNull
             /\ (run[r].pc = "unclassified" /\ unclassifiedChanges(changes) = <<>>) =>
                    (run'[r].pc \in {"unclassified", "exit"} /\ changes' = changes)
       /\ \A i \in 1..Len(changes) :
             changes[i].classification # JNull =>
                 (Len(changes') >= i /\ changes'[i] = changes[i])]_vars

\* a later run classifies the second row and leaves out the first, which an
\* earlier run classified
C20_Witness ==
    \E r \in Runs :
        /\ run[r].pc = "classify"
        /\ \E i \in 1..Len(changes) :
              /\ changes[i].classification # JNull
              /\ \A j \in 1..Len(run[r].rows) : run[r].rows[j].id # changes[i].id

\* C21: a step of classifyChanges leaves dom_snapshots and the number of rows
\* of changes as they were, and the id, diff, source_id, snapshot_id1,
\* snapshot_id2 and timestamp of every row; the only row it changes is, at
\* the update, the row whose id is that of the fetched row being processed,
\* which was unclassified.
C21_ClassifierFrame ==
    [][\A r \in Runs :
          (run[r].pc \in ClassifierSteps /\ run'[r] # run[r]) =>
              /\ snapshots' = snapshots
              /\ Len(changes') = Len(changes)
              /\ \A i \in 1..Len(changes) :
                    /\ changes'[i].id = changes[i].id
                    /\ changes'[i].diff = changes[i].diff
                    /\ changes'[i].source_id = changes[i].source_id
                    /\ changes'[i].snapshot_id1 = changes[i].snapshot_id1
                    /\ changes'[i].snapshot_id2 = changes[i].snapshot_id2
                    /\ changes'[i].timestamp = changes[i].timestamp
                    /\ changes'[i] # changes[i] =>
                           /\ run[r].pc = "update"
                           /\ changes[i].id = Head(run[r].rows).id
                           /\ changes[i].classification = JNull]_vars

\* of two rows fetched, the first has been updated and the second is untouched
C21_Witness ==
    \E r \in Runs :
        /\ run[r].pc = "classify"
        /\ run[r].upd = "ok"
        /\ Len(changes) = 2
        /\ changes[1].classification # JNull
        /\ changes[2].classification = JNull

\* C22: a step of computeDiffs leaves dom_snapshots as it was and every row
\* of changes it found; the only change it makes is, at the insert, one new
\* row with the source, the pair, the diff and a timestamp, and with no
\* classification and no explanation.
C22_DiffStageFrame ==
    [][\A r \in Runs :
          (run[r].pc \in DiffSteps /\ run'[r] # run[r]) =>
              /\ snapshots' = snapshots
              /\ Len(changes') >= Len(changes)
              /\ \A i \in 1..Len(changes) : changes'[i] = changes[i]
              /\ changes' # changes =>
                    /\ run[r].pc = "insert"
                    /\ Len(changes') = Len(changes) + 1
                    /\ LET row == changes'[Len(changes')] IN
                          /\ DOMAIN row = {"id", "source_id", "snapshot_id1", "snapshot_id2",
                                           "diff", "timestamp", "classification", "explanation"}
                          /\ row.source_id = Head(run[r].queue)
                          /\ row.snapshot_id1 = run[r].old
                          /\ row.snapshot_id2 = run[r].new
                          /\ row.diff = run[r].diffJson
                          /\ row.classification = JNull
                          /\ row.explanation = JNull
                          /\ \A i \in 1..Len(changes) :
                                changes[i].id # row.id /\ changes[i].timestamp < row.timestamp]_vars

\* a second row of source 1 was inserted after the first was classified,
\* and the first is as the classifier left it
C22_Witness ==
    /\ Len(changes) = 2
    /\ changes[1] = FirstChangeClassified
    /\ changes[2].source_id = 1
    /\ changes[2].classification = JNull

(***************************************************************************)
(* The diff stage on its own, against the further responses: every store   *)
(* request succeeds, and the run ends when the classifier's fetch fails.   *)
(***************************************************************************)
NextDiff ==
    \/ AddSnapshot /\ UNCHANGED <<hist, probe, test>>
    \/ \E r \in Scheduled : StartRun(r) /\ UNCHANGED <<hist, probe, test>>
    \/ \E r \in Scheduled : FetchSources(r, TRUE) /\ UNCHANGED <<hist, probe, test>>
    \/ \E r \in Scheduled : FetchSnapshots(r, TRUE) /\ UNCHANGED <<hist, probe, test>>
    \/ \E r \in Scheduled : FetchLatest(r, TRUE) /\ UNCHANGED <<hist, probe, test>>
    \/ \E r \in Scheduled, k \in 1..Len(SummarizerResponses) :
          ProviderAnswer(r, SummarizerResponses[k]) /\ UNCHANGED <<hist, probe, test>>
    \/ \E r \in Scheduled : GuardCheck(r, TRUE) /\ UNCHANGED <<hist, probe, test>>
    \/ \E r \in Scheduled : InsertChange(r, TRUE) /\ UNCHANGED <<hist, probe, test>>
    \/ \E r \in Scheduled : FetchUnclassified(r, FALSE) /\ UNCHANGED <<hist, probe, test>>

SpecDiff == Init /\ [][NextDiff]_vars

\* C23: the diff of every row of changes is an object with exactly one
\* field, summary, whose value is a non-empty string.
C23_DiffIsSummaryOnly ==
    \A i \in 1..Len(changes) :
        /\ changes[i].diff.t = "obj"
        /\ Len(changes[i].diff.f) = 1
        /\ changes[i].diff.f[1].k = SummaryKey
        /\ changes[i].diff.f[1].v.t = "str"
        /\ changes[i].diff.f[1].v.s # <<>>

\* C24: a row is inserted for a source only when the provider's response of
\* that run carried a summary, parsed or salvaged: none is inserted when
\* the response was unparseable or was cut short with nothing recoverable.
C24_RowsOnlyFromProviderSummaries ==
    [][\A r \in Runs :
          (run[r].pc = "insert" /\ changes' # changes) =>
              run[r].answer \in {"parsed", "salvaged"}]_vars

\* C25: when the classifier's row in hand fails (the provider call or the
\* parse throws, the response lacks a field, the update reports an error)
\* the row stays unclassified, the loop goes on with the next row fetched,
\* and after the last row classifyChanges returns and the run exits with 0.
C25_PerRowContainment ==
    [][\A r \in Runs :
          (\/ run[r].pc = "classify" /\ run'[r].pc # "update" /\ run'[r] # run[r]
           \/ run[r].pc = "update" /\ changes' = changes /\ run'[r] # run[r]) =>
              /\ changes' = changes
              /\ RowById(Head(run[r].rows).id).classification = JNull
              /\ ~run'[r].threw
              /\ IF Len(run[r].rows) > 1
                 THEN run'[r].pc = "classify" /\ run'[r].rows = Tail(run[r].rows)
                 ELSE run'[r].pc = "exit" /\ run'[r].exit = 0]_vars

\* the update of the first of two rows failed, the row is unclassified and
\* the second row is in hand
C25_Witness ==
    \E r \in Runs :
        /\ run[r].pc = "classify"
        /\ run[r].upd = "error"
        /\ RowById(run[r].updated).classification = JNull
        /\ Head(run[r].rows).id # run[r].updated

\* C26: when the provider call for a source fails, computeDiffs inserts no
\* row for the source, does not queue the source again, and goes on with
\* the next active source, or returns when there is none.
C26_FailedCallSkipsSource ==
    [][\A r \in Runs :
          /\ (run[r].pc = "provider" /\ run'[r].answer = "failed" /\ run'[r] # run[r]) =>
                 LET sid == Head(run[r].queue) IN
                 /\ changes' = changes
                 /\ sid \notin run'[r].stored
                 /\ run'[r].queue = Tail(run[r].queue)
                 /\ sid \notin Range(run'[r].queue)
                 /\ run'[r].pc = IF Tail(run[r].queue) = <<>> THEN "unclassified"
                                 ELSE "snapshots"
          /\ (run[r].pc \in PairSteps \cup {"snapshots"} /\ run'[r].pc \in DiffSteps) =>
                 run'[r].queue \in {run[r].queue, Tail(run[r].queue)}]_vars

\* the call for source 1 failed, nothing is stored and source 2 is next
C26_Witness ==
    \E r \in Runs :
        /\ run[r].pc = "snapshots"
        /\ run[r].answer = "failed"
        /\ run[r].called = {1}
        /\ run[r].stored = {}
        /\ run[r].queue = <<2>>

\* C27: in one run the provider is called at most once for a source by
\* computeDiffs and at most once for a row by classifyChanges: a source is
\* not called for twice, and a fetched row is left behind, whatever its
\* call gave, when the loop moves on.
C27_AtMostOneCall ==
    [][\A r \in Runs :
          /\ (run[r].pc = "provider" /\ run'[r] # run[r]) =>
                 Head(run[r].queue) \notin run[r].called
          /\ (run[r].pc = "classify" /\ run'[r] # run[r]) =>
                 /\ \A j \in 2..Len(run[r].rows) :
                       run[r].rows[j].id # Head(run[r].rows).id
                 /\ \/ run'[r].pc = "update" /\ run'[r].rows = run[r].rows
                    \/ run'[r].pc = "classify" /\ run'[r].rows = Tail(run[r].rows)
                    \/ run'[r].pc = "exit"
          /\ (run[r].pc = "update" /\ run'[r] # run[r]) =>
                 \/ run'[r].pc = "classify" /\ run'[r].rows = Tail(run[r].rows)
                 \/ run'[r].pc = "exit"]_vars

\* the first of two fetched rows was passed and is still unclassified; the
\* second is in hand
C27_Witness ==
    \E r \in Runs :
        /\ run[r].pc = "classify"
        /\ Len(changes) = 2
        /\ Len(run[r].rows) = 1
        /\ Head(run[r].rows).id = 2
        /\ changes[1].classification = JNull
        /\ run[r].upd = "none"

C29_TruncatedResponseRecovered ==
    (probe.fn = "summary" /\ probe.kind = "length") =>
        LET found == trim(summaryMatch(InputText(probe)))
            kept == IF Len(found) > SalvageLimit THEN SalvageLimit ELSE Len(found) IN
        /\ probe.res.t = "obj"
        /\ Len(probe.res.f) = 1
        /\ probe.res.f[1].k = SummaryKey
        /\ probe.res.f[1].v.t = "str"
        /\ probe.res.f[1].v.s # <<>>
        /\ found = <<>> => probe.res.f[1].v.s = TruncatedPlaceholder
        /\ found # <<>> =>
              /\ Len(probe.res.f[1].v.s) >= kept
              /\ SubSeq(probe.res.f[1].v.s, 1, kept) = SubSeq(found, 1, kept)

\* the response {"summary":"hello" gave {summary: "hello"}
C29_Witness ==
    /\ probe.fn = "summary"
    /\ probe.kind = "length"
    /\ probe.tokens = <<1, 4, 5>>
    /\ probe.pad = 0
    /\ probe.res = SummaryObject(<<"h","e","l","l","o">>)

(***************************************************************************)
(* Further properties of the rate limiter.                                 *)
(***************************************************************************)
\* C30: every call of the wrapped create() starts the underlying create()
\* exactly once, for the model it was called with, at once or when its
\* timer fires, which it does; no step starts more than one underlying
\* call; and the caller is given the outcome of the underlying call, result
\* or error, as it is.
C30_OneUnderlyingCallPerCall ==
    /\ [][/\ \A c \in Callers :
               (calls'[c].pc = "calling" /\ calls[c].pc # "calling") <=>
                   (/\ Len(starts') = Len(starts) + 1
                    /\ starts'[Len(starts')].model = calls'[c].model
                    /\ calls[c].pc = "waiting" => calls'[c].model = calls[c].model
                    /\ \A d \in Callers \ {c} : calls'[d] = calls[d])
          /\ Len(starts') \in {Len(starts), Len(starts) + 1}
          /\ issued' = Len(starts') + Cardinality({c \in Callers : calls'[c].pc = "waiting"})
          /\ \A c \in Callers :
               (calls[c].pc = "calling" /\ calls'[c].pc = "idle") =>
                   calls'[c].got = calls'[c].given]_vars
    /\ \A c \in Callers : (calls[c].pc = "waiting") ~> (calls[c].pc = "calling")

\* three calls were made, one of them waited, all three started the
\* underlying call, and a caller was given the error of its call
C30_Witness ==
    /\ issued = 3
    /\ Len(starts) = 3
    /\ \E i \in 1..Len(starts) : starts[i].waited
    /\ \A c \in Callers : calls[c].pc = "idle"
    /\ \E c \in Callers : "got" \in DOMAIN calls[c] /\ calls[c].got = "error"

(***************************************************************************)
(* Further properties of the diff stage.                                   *)
(***************************************************************************)
\* C31: the diff stage handles active sources only: the sources it still
\* has to process, those whose snapshots it has read and found too few,
\* those it has called the provider for and those it has inserted a row
\* for are all active, and so is the source of every row.
C31_OnlyActiveSources ==
    /\ \A r \in Runs :
          /\ \A i \in 1..Len(run[r].queue) : SourceById(run[r].queue[i]).is_active = TRUE
          /\ \A sid \in run[r].few \cup run[r].called \cup run[r].stored :
                SourceById(sid).is_active = TRUE
    /\ \A i \in 1..Len(changes) : SourceById(changes[i].source_id).is_active = TRUE

\* with a source that is not active in the collection, the stage has gone
\* through its sources: a row was inserted for one and the other had too
\* few snapshots
C31_Witness ==
    /\ \E i \in 1..Len(sources) : sources[i].is_active # TRUE
    /\ \E r \in Runs :
          /\ run[r].pc = "unclassified"
          /\ run[r].stored = {1}
          /\ run[r].few = {2}

\* C32: incremental processing: the provider is not called for a source
\* whose pair of latest snapshots already has a row.
C32_NoCallForRecordedPair ==
    [][\A r \in Runs :
          (run[r].pc = "provider" /\ run'[r].pc # "provider") =>
              PairRows(run[r].old, run[r].new) = {}]_vars

(***************************************************************************)
(* Failures of the queries a stage starts with.                            *)
(***************************************************************************)
\* C33: a stage whose first query fails returns without processing an item
\* and without raising the failure: after the query for the active sources
\* the diff stage either goes to its first source or, the query having
\* failed, returns with nothing read, called or inserted, and main calls
\* classifyChanges; after the query for the unclassified rows the
\* classifier either has rows and asks for their urls or returns with no
\* row touched; after the query for the urls it either classifies or
\* returns with no row touched; and when classifyChanges returns the
\* process exits with 0.
C33_FailedListQueryEndsStage ==
    [][\A r \in Runs :
          /\ (run[r].pc = "sources" /\ run'[r].pc # "sources") =>
                \/ /\ run'[r].pc = "snapshots"
                   /\ run'[r].queue # <<>>
                   /\ ~run'[r].sourcesError
                \/ /\ run'[r].pc = "unclassified"
                   /\ run'[r].sourcesError
                   /\ run'[r].exit = -1
                   /\ ~run'[r].threw
                   /\ run'[r].queue = <<>>
                   /\ run'[r].few \cup run'[r].called \cup run'[r].stored = {}
                   /\ changes' = changes
          /\ (run[r].pc = "unclassified" /\ run'[r].pc # "unclassified") =>
                \/ /\ run'[r].pc = "urls"
                   /\ run'[r].rows # <<>>
                \/ /\ run'[r].pc = "exit"
                   /\ run'[r].exit = 0
                   /\ run'[r].upd = "none"
                   /\ changes' = changes
          /\ (run[r].pc = "urls" /\ run'[r].pc # "urls") =>
                \/ run'[r].pc = "classify"
                \/ /\ run'[r].pc = "exit"
                   /\ run'[r].exit = 0
                   /\ run'[r].upd = "none"
                   /\ changes' = changes
          /\ (run[r].pc \in ClassifierSteps /\ run'[r].pc = "exit") => run'[r].exit = 0]_vars

\* the query for the active sources has failed and main has called
\* classifyChanges, with a row of an earlier run still to classify
C33_Witness ==
    \E r \in Runs :
        /\ run[r].pc = "unclassified"
        /\ run[r].sourcesError
        /\ unclassifiedChanges(changes) # <<>>

(***************************************************************************)
(* The state of the rate limiter.                                          *)
(***************************************************************************)
\* the entry of a model, as create() reads it
EntryOf(state, model) == IF model \in DOMAIN state THEN state[model] ELSE 0

\* C34: the timestamps are kept per model name.  An entry is never removed
\* and never decreases; a step of a call for a model leaves the entries of
\* the other models as they are; a call waits exactly when the interval of
\* its own model has not elapsed since the entry of its own model, whatever
\* the entries of the others; the entry is set to the time at which the
\* underlying call is started; and the outcome of the underlying call,
\* result or error, leaves the table as it is.
C34_PerModelState ==
    [][/\ \A m \in DOMAIN lastRequestTime :
             /\ m \in DOMAIN lastRequestTime'
             /\ lastRequestTime'[m] >= lastRequestTime[m]
       /\ \A c \in Callers :
             (calls'[c] # calls[c] /\ calls'[c].pc \in {"waiting", "calling"}) =>
                 LET model == calls'[c].model IN
                 /\ \A m \in DOMAIN lastRequestTime' \ {model} :
                       /\ m \in DOMAIN lastRequestTime
                       /\ lastRequestTime'[m] = lastRequestTime[m]
                 /\ calls[c].pc = "idle" =>
                       (calls'[c].pc = "waiting" <=>
                           now - EntryOf(lastRequestTime, model) <
                               minDelayMs(rpmOf(RATE_LIMITS, model)))
                 /\ calls'[c].pc = "calling" =>
                       /\ lastRequestTime'[model] = now
                       /\ Len(starts') = Len(starts) + 1
                       /\ starts'[Len(starts')].model = model
                       /\ starts'[Len(starts')].at = now
       /\ \A c \in Callers :
             (calls[c].pc = "calling" /\ calls'[c].pc = "idle") =>
                 lastRequestTime' = lastRequestTime]_vars

\* a call for one model was started, a call for the other model was started
\* at once within the interval of the first, a caller was given an error,
\* and a further call for the first model is waiting
C34_Witness ==
    /\ Len(starts) = 2
    /\ starts[1].model # starts[2].model
    /\ ~starts[2].waited
    /\ starts[2].at - starts[1].at < minDelayMs(rpmOf(RATE_LIMITS, starts[1].model))
    /\ \E c \in Callers : "got" \in DOMAIN calls[c] /\ calls[c].got = "error"
    /\ \E c \in Callers : calls[c].pc = "waiting" /\ calls[c].model = starts[1].model

(***************************************************************************)
(* The query for the prior summary.                                        *)
(***************************************************************************)
\* C35: the query for the latest row of the source never skips the source:
\* the step after it is the provider call (or the exception of a snapshot
\* without text), for the same source and the same pair of snapshots; and
\* when the query fails, the provider is called with an empty prior summary.
C35_PriorSummaryFailureGoesOn ==
    [][\A r \in Runs :
          /\ (run[r].pc = "latest" /\ run'[r].pc # "latest") =>
                \/ /\ run'[r].pc = "provider"
                   /\ run'[r].queue = run[r].queue
                   /\ run'[r].old = run[r].old
                   /\ run'[r].new = run[r].new
                \/ /\ run'[r].pc = "exit"
                   /\ run'[r].threw
          /\ (FetchLatest(r, FALSE) /\ run'[r].pc # "exit") =>
                /\ run'[r].pc = "provider"
                /\ run'[r].latestSummary = JStr(<<>>)]_vars

\* the source has a row with a summary, the query for it has failed, and
\* the provider is about to be called with an empty prior summary
C35_Witness ==
    \E r \in Runs :
        /\ run[r].pc = "provider"
        /\ run[r].latestSummary = JStr(<<>>)
        /\ latestSummaryOf(changes, Head(run[r].queue), TRUE) # JStr(<<>>)

(***************************************************************************)
(* Two processes of the job at once: the scheduled run and one dispatched  *)
(* by hand work on the same store, each up to the return of computeDiffs.  *)
(* Every query succeeds; an insert can fail.                               *)
(***************************************************************************)
Dispatched == {r \in Runs : r <= 2}

NextRace ==
    \/ AddSnapshot /\ UNCHANGED <<hist, probe, test>>
    \/ \E r \in Dispatched : StartRun(r) /\ UNCHANGED <<hist, probe, test>>
    \/ \E r \in Dispatched : FetchSources(r, TRUE) /\ UNCHANGED <<hist, probe, test>>
    \/ \E r \in Dispatched : FetchSnapshots(r, TRUE) /\ UNCHANGED <<hist, probe, test>>
    \/ \E r \in Dispatched : FetchLatest(r, TRUE) /\ UNCHANGED <<hist, probe, test>>
    \/ \E r \in Dispatched, k \in 1..Len(DiffResponses) : ProviderCall(r, k) /\ UNCHANGED <<hist, probe, test>>
    \/ \E r \in Dispatched : GuardCheck(r, TRUE) /\ UNCHANGED <<hist, probe, test>>
    \/ \E r \in Dispatched, ok \in BOOLEAN : InsertChange(r, ok) /\ UNCHANGED <<hist, probe, test>>

SpecRace == Init /\ [][NextRace]_vars

\* C36: with two runs at once and every query succeeding, a pair of
\* snapshots can come to have two rows, and only by the race between the
\* duplicate check and the insert: a run inserts a row for a pair that has
\* one only when each such row was inserted after the run's own check,
\* which found none.
C36_DuplicateOnlyByRace ==
    /\ [](~guardFailed)
    /\ [][\A r \in Runs :
             (run[r].pc = "insert" /\ Len(changes') = Len(changes) + 1 /\ run'[r] # run[r]) =>
                 /\ run[r].guard = "absent"
                 /\ \A i \in PairRows(run[r].old, run[r].new) : i > run[r].guardAt]_vars

\* no query has failed, and the collection has two rows for one pair of
\* snapshots, inserted by the two runs
C36_Witness ==
    /\ ~guardFailed
    /\ ~NoDuplicatePair
    /\ \A r \in Dispatched : run[r].stored # {}

(***************************************************************************)
(* One process of the job with its provider calls made through the rate   *)
(* limiter: main() builds the wrapper once and hands it to both stages,    *)
(* which await every call.  A process starts with an empty table of        *)
(* timestamps; calls[r] is the call the process r has in hand, and the     *)
(* log of calls holds that call only.  Store operations and provider       *)
(* calls return, with a result or an error; timers fire and time passes.   *)
(* The scraper is another workflow and captures nothing meanwhile.         *)
(***************************************************************************)
\* the model of the differ and of the classifier (provider scaleway)
JobModel == "llama-3.3-70b-instruct"

\* node starts the process
JobStart(r) ==
    /\ Stopped(r)
    /\ now < StartTime + HorizonMs
    /\ run' = [run EXCEPT ![r] = [IdleRun EXCEPT !.pc = "sources"]]
    /\ lastRequestTime' = [m \in {} |-> 0]
    /\ UNCHANGED <<snapshots, changes, guardFailed, now, calls, starts, issued, hist, probe, test>>

\* the row in hand is sent to the provider: its diff has passed the check
sendsRow(rec) == rec.pc = "classify" /\ ~invalidDiff(Head(rec.rows).diff)

\* getLLMChangeSummary or classifyChanges calls create()
JobCreate(r) ==
    /\ run[r].pc = "provider" \/ sendsRow(run[r])
    /\ Create(r, JobModel)

\* the call returns
returned(r) ==
    /\ calls[r].pc = "calling"
    /\ calls' = [calls EXCEPT ![r] = IdleCall]
    /\ starts' = <<>>
    /\ issued' = 0
    /\ UNCHANGED <<now, lastRequestTime>>

\* the differ's call returns resp
JobAnswer(r, resp) == Answered(r, resp) /\ returned(r)

\* a row that is not sent is skipped; the classifier's call returns
JobClassify(r, k) ==
    /\ Classified(r, k)
    /\ IF sendsRow(run[r]) THEN returned(r) ELSE UNCHANGED govVars

\* a step of the process between its start and its exit
JobStep(r) ==
    \/ \E ok \in BOOLEAN : FetchSources(r, ok) /\ UNCHANGED <<hist, probe, test>>
    \/ \E ok \in BOOLEAN : FetchSnapshots(r, ok) /\ UNCHANGED <<hist, probe, test>>
    \/ \E ok \in BOOLEAN : FetchLatest(r, ok) /\ UNCHANGED <<hist, probe, test>>
    \/ JobCreate(r)
    \/ Wake(r)
    \/ \E k \in 1..Len(DiffResponses) : JobAnswer(r, DiffResponses[k]) /\ UNCHANGED <<hist, probe, test>>
    \/ \E ok \in BOOLEAN : GuardCheck(r, ok) /\ UNCHANGED <<hist, probe, test>>
    \/ \E ok \in BOOLEAN : InsertChange(r, ok) /\ UNCHANGED <<hist, probe, test>>
    \/ \E ok \in BOOLEAN : FetchUnclassified(r, ok) /\ UNCHANGED <<hist, probe, test>>
    \/ \E ok \in BOOLEAN : FetchUrls(r, ok) /\ UNCHANGED <<hist, probe, test>>
    \/ \E k \in 1..Len(ClassResponses) : JobClassify(r, k) /\ UNCHANGED <<hist, probe, test>>
    \/ \E ok \in BOOLEAN : UpdateChange(r, ok) /\ UNCHANGED <<hist, probe, test>>

NextJob ==
    \/ \E r \in Scheduled : JobStart(r)
    \/ \E r \in Scheduled : JobStep(r)
    \/ Elapse

\* ENABLED <<JobStep(r)>>_vars: the process has started and not exited, and
\* is not waiting for a timer that is not yet due (a store operation and a
\* provider call can always return, at least with an error)
JobEnabled(r) ==
    /\ ~Stopped(r)
    /\ ~(calls[r].pc = "waiting" /\ now < calls[r].wake)

\* weak fairness of the steps of the process, WF_vars(JobStep(r)), with its
\* ENABLED written out, and of the passing of time
SpecJob ==
    /\ Init
    /\ [][NextJob]_vars
    /\ \A r \in Scheduled : []<>(~JobEnabled(r)) \/ []<><<JobStep(r)>>_vars
    /\ WF_vars(Elapse)

\* the order of the steps of main()
StepRank(pc) ==
    CASE pc = "sources" -> 1
      [] pc = "snapshots" -> 2
      [] pc = "latest" -> 3
      [] pc = "provider" -> 4
      [] pc = "guard" -> 5
      [] pc = "insert" -> 6
      [] pc = "unclassified" -> 7
      [] pc = "urls" -> 8
      [] pc = "classify" -> 9
      [] pc = "update" -> 10
      [] OTHER -> 11

\* C37: a process that has started exits.  Each step it takes either goes
\* on with the item in hand, to a later step and with the list as it is, or
\* takes the next item, the list losing its head, or leaves the stage for
\* a later one: a stage goes once through the list it fetched, whatever
\* the process inserts meanwhile.  And a call that has to wait waits for no longer
\* than the interval of its model, 60000 / rpm milliseconds.
C37_RunTerminates ==
    /\ \A r \in Scheduled : (run[r].pc = "sources") ~> (run[r].pc = "exit")
    /\ [][\A r \in Scheduled :
             /\ (~Stopped(r) /\ run'[r] # run[r]) =>
                   \/ /\ StepRank(run'[r].pc) > StepRank(run[r].pc)
                      /\ run'[r].pc \in DiffSteps \ {"sources"} /\ run[r].pc \in DiffSteps \ {"sources"}
                            => run'[r].queue = run[r].queue
                      /\ run'[r].pc = "update" => run'[r].rows = run[r].rows
                   \/ /\ run[r].pc \in DiffSteps \ {"sources"}
                      /\ run'[r].pc = "snapshots"
                      /\ run'[r].queue = Tail(run[r].queue)
                   \/ /\ run[r].pc \in {"classify", "update"}
                      /\ run'[r].pc = "classify"
                      /\ run'[r].rows = Tail(run[r].rows)
             /\ (calls'[r].pc = "waiting" /\ calls[r].pc # "waiting") =>
                   /\ calls'[r].wake > now
                   /\ calls'[r].wake - now <= minDelayMs(rpmOf(RATE_LIMITS, calls'[r].model))]_vars

\* a process has exited with 0 after a call of it had waited, and a row is
\* classified
C37_Witness ==
    \E r \in Scheduled :
        /\ run[r].pc = "exit"
        /\ run[r].exit = 0
        /\ JobModel \in DOMAIN lastRequestTime
        /\ lastRequestTime[JobModel] > StartTime
        /\ \E i \in 1..Len(changes) : changes[i].classification # JNull

====
